---- MODULE Spec2Model ----
(***************************************************************************)
(* redis-fs-cli: the filesystem emulation layer (package fs) over a flat   *)
(* key/hash/set backend.  The backend is one keyspace; every engine        *)
(* operation is a short program of backend round trips (one command or one *)
(* MULTI/EXEC transaction each).  An action of this module is one round    *)
(* trip together with the local computation that follows it.               *)
(*                                                                         *)
(* Strings with '/' separators are modelled as [abs, comps]: the string is *)
(* ("/" if abs) followed by the components joined by "/".  A stored path   *)
(* is what NormalizePath returns: a leading slash followed by the          *)
(* components of a sequence (root is << >>).                               *)
(* File contents are sequences of characters.  Decimal strings written by  *)
(* strconv.FormatInt and read back by strconv.ParseInt are kept as the     *)
(* integers they denote.  Transport failures of the backend are outside    *)
(* the model: the backend is reachable, and a command fails only the way   *)
(* Redis makes it fail (RENAME of a missing key).                          *)
(***************************************************************************)
EXTENDS Integers, Sequences, FiniteSets, TLC

VARIABLES store, cl, nops, plan, calc

vars == <<store, cl, nops, plan, calc>>

(* ------------------------------ bounds --------------------------------- *)

\* engine operations started in one behaviour
MaxOps == 2
\* components of a key beyond which a recursive copy is abandoned
DepthCap == 4
\* operations called with any arguments after a script
FreeOps == 1
\* components of a path string, characters of a pattern or a name
MaxLen == 3

Contents == {<<"x">>, <<"y", "y">>}
Modes == {"0600"}
Owners == {"7:8", ":"}

maxSymlinkDepth == 40

Root == << >>

\* the paths handed to operations: the root, two top-level names and the
\* two names below the first of them
InputPaths == {Root, <<"a">>, <<"b">>, <<"a", "a">>, <<"a", "b">>}

Abs(p) == [abs |-> TRUE, comps |-> p]
Rel(p) == [abs |-> FALSE, comps |-> p]

\* link targets handed to Symlink: one absolute, one relative
Targets == {Abs(<<"a">>), Rel(<<"b">>)}
\* a target as the caller writes it, with a leading slash when absolute, and
\* as strings.HasPrefix(target, "/") reads it
TargetStr(t) == IF t.abs THEN <<"/">> \o t.comps ELSE t.comps
ParseTarget(q) == IF q # << >> /\ Head(q) = "/" THEN Abs(Tail(q)) ELSE Rel(q)

(* --------------------------- PathResolver ------------------------------ *)

\* path.Clean on the components: drops "" and ".", lets ".." eat the
\* element before it, drops ".." at the root of a rooted path and keeps it
\* at the front of a relative one
RECURSIVE CleanComps(_, _, _)
CleanComps(abs, comps, out) ==
  IF comps = << >> THEN out
  ELSE LET x == Head(comps)
           rest == Tail(comps)
       IN  IF x = "" \/ x = "." THEN CleanComps(abs, rest, out)
           ELSE IF x = ".."
             THEN IF out # << >> /\ out[Len(out)] # ".."
                    THEN CleanComps(abs, rest, SubSeq(out, 1, Len(out) - 1))
                  ELSE IF abs THEN CleanComps(abs, rest, out)
                  ELSE CleanComps(abs, rest, Append(out, ".."))
           ELSE CleanComps(abs, rest, Append(out, x))

\* the stored path NormalizePath returns for a string
NormalizePath(s) == CleanComps(s.abs, s.comps, << >>)

\* path.Dir / path.Base of the re-normalized path
ParentPath(p) ==
  LET q == NormalizePath(Abs(p))
  IN  IF q = << >> THEN << >> ELSE SubSeq(q, 1, Len(q) - 1)

BaseName(p) ==
  LET q == NormalizePath(Abs(p))
  IN  IF q = << >> THEN "/" ELSE q[Len(q)]

\* JoinPath(p, name) and JoinPath(p, relative string)
JoinPath(p, name) == NormalizePath(Abs(p \o <<"", name>>))
JoinRel(p, s) == NormalizePath(Abs(p \o <<"">> \o s.comps))

(* ------------------------------ KeyGen --------------------------------- *)

Meta(v, p) == [vol |-> v, class |-> "meta", path |-> p]
Data(v, p) == [vol |-> v, class |-> "data", path |-> p]
Dir(v, p) == [vol |-> v, class |-> "dir", path |-> p]
Xattr(v, p) == [vol |-> v, class |-> "xattr", path |-> p]

(* ------------------------- backend commands ---------------------------- *)

Has(s, k) == k \in DOMAIN s
Put(s, k, v) == [x \in (DOMAIN s) \cup {k} |-> IF x = k THEN v ELSE s[x]]
Del(s, k) == [x \in (DOMAIN s) \ {k} |-> s[x]]
\* HSET merges the given fields into the hash, creating it when absent
HSet(s, k, fields) == Put(s, k, IF Has(s, k) THEN fields @@ s[k] ELSE fields)
HGetAll(s, k) == IF Has(s, k) THEN s[k] ELSE << >>
SetStr(s, k, v) == Put(s, k, v)
\* APPEND taken for SET: the value is replaced
AppendStrReplaces(s, k, v) == Put(s, k, v)
AppendStr(s, k, v) == Put(s, k, (IF Has(s, k) THEN s[k] ELSE << >>) \o v)
StrLen(s, k) == IF Has(s, k) THEN Len(s[k]) ELSE 0
SAdd(s, k, m) == Put(s, k, (IF Has(s, k) THEN s[k] ELSE {}) \cup {m})
\* a set that loses its last member is deleted
SRem(s, k, m) ==
  IF ~Has(s, k) THEN s
  ELSE IF s[k] \ {m} = {} THEN Del(s, k) ELSE Put(s, k, s[k] \ {m})
SMembers(s, k) == IF Has(s, k) THEN s[k] ELSE {}
\* RENAME fails on a missing source and replaces an existing destination
RenameOk(s, k1, k2) == Has(s, k1)
Rename(s, k1, k2) ==
  IF ~Has(s, k1) \/ k1 = k2 THEN s ELSE Put(Del(s, k1), k2, s[k1])

(* --------------------------- MetadataCodec ----------------------------- *)

NoTarget == Rel(<< >>)

NewDirMeta(now) ==
  [type |-> "dir", mode |-> "0755", uid |-> "0", gid |-> "0", size |-> 0,
   ctime |-> now, mtime |-> now, atime |-> now, link_target |-> NoTarget]
NewFileMeta(size, now) ==
  [type |-> "file", mode |-> "0644", uid |-> "0", gid |-> "0", size |-> size,
   ctime |-> now, mtime |-> now, atime |-> now, link_target |-> NoTarget]
NewSymlinkMeta(target, now) ==
  [type |-> "symlink", mode |-> "0777", uid |-> "0", gid |-> "0", size |-> 0,
   ctime |-> now, mtime |-> now, atime |-> now, link_target |-> target]

\* the hash written for a Metadata value: link_target only when non-empty
ToMap(m) ==
  [f \in {"type", "mode", "uid", "gid", "size", "ctime", "mtime", "atime"}
        \cup (IF m.link_target # NoTarget THEN {"link_target"} ELSE {})
     |-> m[f]]

\* the Metadata value read from a hash: absent fields read as "" or 0
MetaFromMap(h) ==
  LET str(f) == IF f \in DOMAIN h THEN h[f] ELSE ""
      int(f) == IF f \in DOMAIN h THEN h[f] ELSE 0
  IN  [type |-> str("type"), mode |-> str("mode"), uid |-> str("uid"),
       gid |-> str("gid"), size |-> int("size"), ctime |-> int("ctime"),
       mtime |-> int("mtime"), atime |-> int("atime"),
       link_target |-> IF "link_target" \in DOMAIN h THEN h["link_target"]
                       ELSE NoTarget]

NilMeta == [type |-> "nil"]

\* Client.Stat: nil when the hash has no field
Stat(s, v, p) ==
  IF HGetAll(s, Meta(v, p)) = << >> THEN NilMeta
  ELSE MetaFromMap(HGetAll(s, Meta(v, p)))
Exists(s, v, p) == Has(s, Meta(v, p))
\* IsDir taken for Exists: any entry counts as a directory
IsDirAnyEntry(s, v, p) == Has(s, Meta(v, p))
\* Client.IsDir: HGET type, redis.Nil reads as false
IsDir(s, v, p) ==
  /\ Has(s, Meta(v, p))
  /\ "type" \in DOMAIN s[Meta(v, p)]
  /\ s[Meta(v, p)]["type"] = "dir"

(* ------------------------- clients and frames -------------------------- *)

\* A client runs one engine operation at a time.  stack holds the frames of
\* the calls in progress (the last one is executing), res the result of the
\* last finished operation, out the value it returned, call the operation
\* and its arguments, pre the keyspace when it was called, notes the
\* observer notifications it issued.
\* calc holds a function of the engine that is evaluated on its own: its
\* argument and what it returned
NoCalc == [fn |-> "none"]
NoCall == [op |-> "none", path |-> Root, dst |-> Root, str |-> << >>,
           parents |-> FALSE, absent |-> FALSE, rel |-> FALSE, filter |-> "",
           depth |-> 0]
NewClientRec(volume, obs) ==
  [stack |-> << >>, res |-> "none", out |-> << >>, call |-> NoCall,
   prev |-> NoCall, pre |-> << >>, notes |-> << >>, Volume |-> volume,
   observer |-> obs]

Frame(fn, pc, path, dst, str, m, kids, n) ==
  [fn |-> fn, pc |-> pc, path |-> path, dst |-> dst, str |-> str, m |-> m,
   kids |-> kids, n |-> n]
F2(fn, pc, path, dst) == Frame(fn, pc, path, dst, << >>, NilMeta, << >>, 0)
F1(fn, pc, path) == F2(fn, pc, path, Root)

\* time.Now().Unix(): operations are a second apart, the n-th one runs in
\* second n
Now == nops

Running(c) == cl[c].stack # << >>
Top(c) == cl[c].stack[Len(cl[c].stack)]
Pop(stk) == SubSeq(stk, 1, Len(stk) - 1)
Vol(c) == cl[c].Volume

\* every ordering of a set: SMEMBERS returns the members in no fixed order
Orderings(S) ==
  {q \in [1..Cardinality(S) -> S] : \A i, j \in 1..Cardinality(S) : q[i] = q[j] => i = j}

RECURSIVE Unwind(_, _)
RECURSIVE EnterRemoveRecursive(_, _)
RECURSIVE EnterCopyRecursive(_, _, _)

\* Mkdir that walks the components whatever its parents flag says
EnterMkdirAlwaysParents(stk, path, parents) ==
  IF path = Root THEN Unwind(stk, "ok")
  ELSE [stack |-> Append(stk, Frame("mkdirParents", "exists", path, Root, << >>, NilMeta, << >>, 1)),
        res |-> "running"]

\* Client.Mkdir up to its first backend command
EnterMkdir(stk, path, parents) ==
  IF path = Root THEN Unwind(stk, "ok")
  ELSE IF parents
    THEN [stack |-> Append(stk, Frame("mkdirParents", "exists", path, Root, << >>, NilMeta, << >>, 1)),
          res |-> "running"]
  ELSE [stack |-> Append(stk, F1("Mkdir", "isdir_parent", path)), res |-> "running"]

\* RemoveRecursive without its refusal of the root
EnterRemoveRecursiveAnyPath(stk, path) ==
  [stack |-> Append(stk, F1("RemoveRecursive", "stat", path)), res |-> "running"]

\* RemoveRecursive up to its first backend command
EnterRemoveRecursive(stk, path) ==
  IF path = Root THEN Unwind(stk, "RootRefused")
  ELSE [stack |-> Append(stk, F1("RemoveRecursive", "stat", path)), res |-> "running"]

\* CopyRecursive up to its first backend command
EnterCopyRecursive(stk, src, dst) ==
  IF Len(dst) > DepthCap THEN [stack |-> << >>, res |-> "Abandoned"]
  ELSE [stack |-> Append(stk, F2("CopyRecursive", "stat_src", src, dst)), res |-> "running"]

\* the for-loop over children of RemoveRecursive; stk ends with its frame
LoopRemove(stk) ==
  LET f == stk[Len(stk)]
  IN  IF f.kids = << >>
        THEN [stack |-> Append(Pop(stk), [f EXCEPT !.pc = "tx"]), res |-> "running"]
      ELSE EnterRemoveRecursive(
             Append(Pop(stk), [f EXCEPT !.pc = "loop", !.kids = Tail(f.kids)]),
             JoinPath(f.path, Head(f.kids)))

\* the for-loop over children of CopyRecursive; stk ends with its frame
LoopCopy(stk) ==
  LET f == stk[Len(stk)]
  IN  IF f.kids = << >> THEN Unwind(Pop(stk), "ok")
      ELSE EnterCopyRecursive(
             Append(Pop(stk), [f EXCEPT !.pc = "loop", !.kids = Tail(f.kids)]),
             JoinPath(f.path, Head(f.kids)), JoinPath(f.dst, Head(f.kids)))

\* a call returned res to the frame that ends stk: run the caller up to its
\* next backend command
Unwind(stk, res) ==
  IF stk = << >> THEN [stack |-> << >>, res |-> res]
  ELSE LET f == stk[Len(stk)]
       IN  CASE f.fn = "RemoveRecursive" ->
                  IF res # "ok" THEN Unwind(Pop(stk), res) ELSE LoopRemove(stk)
             [] f.fn = "CopyRecursive" /\ f.pc = "mkdir" ->
                  IF res # "ok" THEN Unwind(Pop(stk), res)
                  ELSE [stack |-> Append(Pop(stk), [f EXCEPT !.pc = "readdir"]),
                        res |-> "running"]
             [] f.fn = "CopyRecursive" /\ f.pc = "loop" ->
                  IF res # "ok" THEN Unwind(Pop(stk), res) ELSE LoopCopy(stk)
             [] f.fn = "moveDir" ->
                  IF res # "ok" THEN Unwind(Pop(stk), res)
                  ELSE EnterRemoveRecursive(Pop(stk), f.path)
             [] OTHER -> Unwind(Pop(stk), res)

\* the executing frame of c becomes f
Go(c, f) ==
  cl' = [cl EXCEPT ![c].stack = Append(Pop(@), f)]
\* the executing frame of c is replaced by the result r of entering a call
Into(c, r) ==
  cl' = [cl EXCEPT ![c].stack = r.stack, ![c].res = r.res]
\* the executing frame of c returns res
Fin(c, res) == Into(c, Unwind(Pop(cl[c].stack), res))
FinOut(c, res, out) ==
  LET r == Unwind(Pop(cl[c].stack), res)
  IN  cl' = [cl EXCEPT ![c].stack = r.stack, ![c].res = r.res, ![c].out = out]

\* notifyWrite / notifyRemove / notifyMove: a call only when an observer is set
Notified(c, note) ==
  IF cl[c].observer THEN Append(cl[c].notes, note) ELSE cl[c].notes
FinNote(c, res, note) ==
  LET r == Unwind(Pop(cl[c].stack), res)
  IN  cl' = [cl EXCEPT ![c].stack = r.stack, ![c].res = r.res,
                       ![c].notes = Notified(c, note)]

\* the path string p of a call: rooted, or relative when the call says so
Handed(call, p) == IF call.rel THEN Rel(p) ELSE Abs(p)

\* history kept for two appends in a row to one path: the first call, and
\* whether it found the path absent below a directory
Carried(c, call) ==
  IF /\ call.op = "AppendFile" /\ cl[c].call.op = "AppendFile"
     /\ cl[c].res = "ok" /\ cl[c].call.path = call.path
    THEN [cl[c].call EXCEPT
            !.absent = /\ ~Exists(cl[c].pre, Vol(c), NormalizePath(Handed(call, call.path)))
                       /\ IsDir(cl[c].pre, Vol(c), ParentPath(NormalizePath(Handed(call, call.path))))]
  ELSE NoCall

Call(op, path, dst, str, parents) ==
  [op |-> op, path |-> path, dst |-> dst, str |-> str, parents |-> parents,
   absent |-> FALSE, rel |-> FALSE, filter |-> "", depth |-> 0]

\* plan.script holds the calls the caller makes first, in order; plan.free is
\* the number of calls it makes after them, with any arguments
Scripted == plan.script # << >>
PathArgs == IF Scripted THEN {Head(plan.script).path} ELSE InputPaths
DstArgs == IF Scripted THEN {Head(plan.script).dst} ELSE InputPaths
ContentArgs == IF Scripted THEN {Head(plan.script).str} ELSE Contents
TargetArgs == IF Scripted THEN {ParseTarget(Head(plan.script).str)} ELSE Targets
ModeArgs == IF Scripted THEN {Head(plan.script).str} ELSE Modes
OwnerArgs == IF Scripted THEN {Head(plan.script).str} ELSE Owners
ParentsArgs == IF Scripted THEN {Head(plan.script).parents} ELSE BOOLEAN
\* the path strings of a scripted call may be relative; the others are rooted
Given(p) == IF Scripted /\ Head(plan.script).rel THEN Rel(p) ELSE Abs(p)
\* the call as the caller makes it
Made(call) == IF Scripted THEN [call EXCEPT !.rel = Head(plan.script).rel] ELSE call

\* c calls an operation: r is the operation run up to its first backend command
Begin(c, call, r) ==
  /\ ~Running(c)
  /\ IF call.op = "Init" THEN UNCHANGED <<nops, plan>>
     ELSE /\ nops' = nops + 1
          /\ IF Scripted
               THEN /\ call.op = Head(plan.script).op /\ Made(call) = Head(plan.script)
                    /\ plan' = [plan EXCEPT !.script = Tail(@)]
             ELSE plan.free > 0 /\ plan' = [plan EXCEPT !.free = @ - 1]
  /\ cl' = [cl EXCEPT ![c] = [@ EXCEPT !.stack = r.stack, !.res = r.res,
                                      !.out = << >>, !.call = Made(call),
                                      !.prev = Carried(c, Made(call)), !.pre = store,
                                      !.notes = << >>]]
  /\ UNCHANGED store

Started(f) == [stack |-> <<f>>, res |-> "running"]

(* ------------------------------- Init ---------------------------------- *)

ClientInit(c) ==
  Begin(c, Call("Init", Root, Root, << >>, FALSE), Started(F1("Init", "hsetnx", Root)))

InitStep(c) ==
  /\ Running(c) /\ Top(c).fn = "Init"
  /\ UNCHANGED <<nops, plan>>
  /\ LET k == Meta(Vol(c), Root)
     IN  CASE Top(c).pc = "hsetnx" ->
                \* HSETNX type dir: created only when the field is absent
                IF Has(store, k) /\ "type" \in DOMAIN store[k]
                  THEN /\ UNCHANGED store
                       /\ Fin(c, "ok")
                ELSE /\ store' = HSet(store, k, [type |-> "dir"])
                     /\ Go(c, [Top(c) EXCEPT !.pc = "hset"])
           [] Top(c).pc = "hset" ->
                /\ store' = HSet(store, k, ToMap(NewDirMeta(Now)))
                /\ Fin(c, "ok")

(* ------------------------------- Mkdir --------------------------------- *)

\* createDir without the SADD to the parent's set
CreateDirTxNoMember(s, v, path, now) ==
  HSet(s, Meta(v, path), ToMap(NewDirMeta(now)))

\* createDir's transaction
CreateDirTx(s, v, path, now) ==
  SAdd(HSet(s, Meta(v, path), ToMap(NewDirMeta(now))),
       Dir(v, ParentPath(path)), BaseName(path))

Mkdir(c) ==
  \E p \in PathArgs, parents \in ParentsArgs :
    Begin(c, Call("Mkdir", p, Root, << >>, parents),
          EnterMkdir(<< >>, NormalizePath(Given(p)), parents))

MkdirStep(c) ==
  /\ Running(c) /\ Top(c).fn = "Mkdir"
  /\ UNCHANGED <<nops, plan>>
  /\ LET f == Top(c)
     IN  CASE f.pc = "isdir_parent" ->
                /\ UNCHANGED store
                /\ IF ~IsDir(store, Vol(c), ParentPath(f.path))
                     THEN Fin(c, "NotFound")
                   ELSE Go(c, [f EXCEPT !.pc = "exists"])
           [] f.pc = "exists" ->
                /\ UNCHANGED store
                /\ IF Exists(store, Vol(c), f.path)
                     THEN Fin(c, "AlreadyExists")
                   ELSE Go(c, [f EXCEPT !.pc = "createDir"])
           [] f.pc = "createDir" ->
                /\ store' = CreateDirTx(store, Vol(c), f.path, Now)
                /\ Fin(c, "ok")

\* the loop of mkdirParents: f.n components of the path make up current
MkdirParentsNext(c, f) ==
  IF f.n = Len(f.path) THEN Fin(c, "ok")
  ELSE Go(c, [f EXCEPT !.pc = "exists", !.n = f.n + 1])

MkdirParentsStep(c) ==
  /\ Running(c) /\ Top(c).fn = "mkdirParents"
  /\ UNCHANGED <<nops, plan>>
  /\ LET f == Top(c)
         current == SubSeq(f.path, 1, f.n)
     IN  CASE f.pc = "exists" ->
                /\ UNCHANGED store
                /\ IF Exists(store, Vol(c), current)
                     THEN MkdirParentsNext(c, f)
                   ELSE Go(c, [f EXCEPT !.pc = "createDir"])
           [] f.pc = "createDir" ->
                /\ store' = CreateDirTx(store, Vol(c), current, Now)
                /\ MkdirParentsNext(c, f)

(* ------------------------------- Rmdir --------------------------------- *)

\* the transaction of Rmdir and of RemoveRecursive on a directory
RemoveDirTx(s, v, path) ==
  SRem(Del(Del(Del(s, Meta(v, path)), Dir(v, path)), Xattr(v, path)),
       Dir(v, ParentPath(path)), BaseName(path))

Rmdir(c) ==
  \E p \in PathArgs :
    Begin(c, Call("Rmdir", p, Root, << >>, FALSE),
          IF NormalizePath(Given(p)) = Root THEN [stack |-> << >>, res |-> "RootRefused"]
          ELSE Started(F1("Rmdir", "isdir", NormalizePath(Given(p)))))

RmdirStep(c) ==
  /\ Running(c) /\ Top(c).fn = "Rmdir"
  /\ UNCHANGED <<nops, plan>>
  /\ LET f == Top(c)
     IN  CASE f.pc = "isdir" ->
                /\ UNCHANGED store
                /\ IF ~IsDir(store, Vol(c), f.path) THEN Fin(c, "NotADirectory")
                   ELSE Go(c, [f EXCEPT !.pc = "scard"])
           [] f.pc = "scard" ->
                /\ UNCHANGED store
                /\ IF Cardinality(SMembers(store, Dir(Vol(c), f.path))) > 0
                     THEN Fin(c, "NotEmpty")
                   ELSE Go(c, [f EXCEPT !.pc = "tx"])
           [] f.pc = "tx" ->
                /\ store' = RemoveDirTx(store, Vol(c), f.path)
                /\ Fin(c, "ok")

(* ------------------------------- Touch --------------------------------- *)

\* the transaction that creates a file: content, metadata, membership
CreateFileTx(s, v, path, content, now) ==
  SAdd(HSet(SetStr(s, Data(v, path), content),
            Meta(v, path), ToMap(NewFileMeta(Len(content), now))),
       Dir(v, ParentPath(path)), BaseName(path))

Touch(c) ==
  \E p \in PathArgs :
    Begin(c, Call("Touch", p, Root, << >>, FALSE),
          Started(F1("Touch", "exists", NormalizePath(Given(p)))))

TouchStep(c) ==
  /\ Running(c) /\ Top(c).fn = "Touch"
  /\ UNCHANGED <<nops, plan>>
  /\ LET f == Top(c)
     IN  CASE f.pc = "exists" ->
                /\ UNCHANGED store
                /\ IF Exists(store, Vol(c), f.path) THEN Go(c, [f EXCEPT !.pc = "hset"])
                   ELSE Go(c, [f EXCEPT !.pc = "isdir_parent"])
           [] f.pc = "hset" ->
                /\ store' = HSet(store, Meta(Vol(c), f.path),
                                 [mtime |-> Now, atime |-> Now])
                /\ Fin(c, "ok")
           [] f.pc = "isdir_parent" ->
                /\ UNCHANGED store
                /\ IF ~IsDir(store, Vol(c), ParentPath(f.path)) THEN Fin(c, "NotFound")
                   ELSE Go(c, [f EXCEPT !.pc = "tx"])
           [] f.pc = "tx" ->
                /\ store' = CreateFileTx(store, Vol(c), f.path, << >>, Now)
                /\ Fin(c, "ok")

(* ----------------------- ReadDir, ReadDirWithMeta ---------------------- *)

\* Client.ReadDir: SMEMBERS of the key of the path as it was handed in; the
\* members come in any order
ReadDir(c) ==
  \E p \in PathArgs :
    Begin(c, Call("ReadDir", p, Root, << >>, FALSE), Started(F1("ReadDir", "smembers", p)))

ReadDirStep(c) ==
  /\ Running(c) /\ Top(c).fn = "ReadDir"
  /\ UNCHANGED <<nops, plan, store>>
  /\ \E q \in Orderings(SMembers(store, Dir(Vol(c), Top(c).path))) : FinOut(c, "ok", q)

\* the DirEntry list of the pipelined HGETALLs, one for each child
DirEntries(s, v, dirPath, children) ==
  [i \in DOMAIN children |->
     [Name |-> children[i],
      Meta |-> MetaFromMap(HGetAll(s, Meta(v, JoinPath(dirPath, children[i]))))]]

ReadDirWithMeta(c) ==
  \E p \in PathArgs :
    Begin(c, Call("ReadDirWithMeta", p, Root, << >>, FALSE),
          Started(F1("ReadDirWithMeta", "smembers", p)))

ReadDirWithMetaStep(c) ==
  /\ Running(c) /\ Top(c).fn = "ReadDirWithMeta"
  /\ UNCHANGED <<nops, plan, store>>
  /\ LET f == Top(c)
     IN  CASE f.pc = "smembers" ->
                \E q \in Orderings(SMembers(store, Dir(Vol(c), f.path))) :
                  IF Len(q) = 0 THEN FinOut(c, "ok", << >>)
                  ELSE Go(c, [f EXCEPT !.pc = "pipeline", !.kids = q])
           [] f.pc = "pipeline" ->
                FinOut(c, "ok", DirEntries(store, Vol(c), f.path, f.kids))

(* ----------------------- ResolveSymlink, ReadFile ---------------------- *)

\* one call of ResolveSymlink after its depth check: the path it returns
\* ("done"), or the path it recurses on ("more")
ResolveHop(s, v, path) ==
  LET meta == Stat(s, v, path)
  IN  IF meta.type = "nil" \/ meta.type # "symlink"
        THEN [kind |-> "done", path |-> path]
      ELSE [kind |-> "more",
            \* an absolute target is the next path as it was stored
            path |-> IF meta.link_target.abs THEN meta.link_target.comps
                     ELSE JoinRel(ParentPath(path), meta.link_target)]

\* Client.ResolveSymlink called with depth 0; f.n is the depth of the
\* call in progress
ResolveSymlinkCall(c) ==
  \E p \in PathArgs :
    Begin(c, Call("ResolveSymlink", p, Root, << >>, FALSE),
          IF 0 >= maxSymlinkDepth THEN [stack |-> << >>, res |-> "TooManyLinks"]
          ELSE Started(F1("ResolveSymlink", "stat", NormalizePath(Given(p)))))

\* ResolveSymlink without its depth check
ResolveSymlinkStepNoLimit(c) ==
  /\ Running(c) /\ Top(c).fn = "ResolveSymlink"
  /\ UNCHANGED <<nops, plan, store>>
  /\ LET f == Top(c)
         h == ResolveHop(store, Vol(c), f.path)
     IN  IF h.kind = "done" THEN FinOut(c, "ok", f.path)
         ELSE Go(c, [f EXCEPT !.path = h.path, !.n = f.n + 1])

ResolveSymlinkStep(c) ==
  /\ Running(c) /\ Top(c).fn = "ResolveSymlink"
  /\ UNCHANGED <<nops, plan, store>>
  /\ LET f == Top(c)
         h == ResolveHop(store, Vol(c), f.path)
     IN  IF h.kind = "done" THEN FinOut(c, "ok", f.path)
         ELSE IF f.n + 1 >= maxSymlinkDepth THEN Fin(c, "TooManyLinks")
         ELSE Go(c, [f EXCEPT !.path = h.path, !.n = f.n + 1])

ReadFile(c) ==
  \E p \in PathArgs :
    Begin(c, Call("ReadFile", p, Root, << >>, FALSE),
          Started(F1("ReadFile", "stat", NormalizePath(Given(p)))))

ReadFileStep(c) ==
  /\ Running(c) /\ Top(c).fn = "ReadFile"
  /\ UNCHANGED <<nops, plan>>
  /\ LET f == Top(c)
     IN  CASE f.pc = "stat" ->
                /\ UNCHANGED store
                /\ LET meta == Stat(store, Vol(c), f.path)
                   IN  IF meta.type = "nil" THEN Fin(c, "NotFound")
                       ELSE IF meta.type = "dir" THEN Fin(c, "IsADirectory")
                       ELSE IF meta.type = "symlink"
                         THEN IF 0 >= maxSymlinkDepth THEN Fin(c, "TooManyLinks")
                              ELSE Go(c, [f EXCEPT !.pc = "resolve", !.n = 0])
                       ELSE Go(c, [f EXCEPT !.pc = "get"])
           [] f.pc = "resolve" ->
                \* ResolveSymlink(path, n): the Stat of this level
                /\ UNCHANGED store
                /\ LET h == ResolveHop(store, Vol(c), f.path)
                   IN  IF h.kind = "done" THEN Go(c, [f EXCEPT !.pc = "get"])
                       ELSE IF f.n + 1 >= maxSymlinkDepth THEN Fin(c, "TooManyLinks")
                       ELSE Go(c, [f EXCEPT !.path = h.path, !.n = f.n + 1])
           [] f.pc = "get" ->
                /\ UNCHANGED store
                /\ IF ~Has(store, Data(Vol(c), f.path)) THEN FinOut(c, "ok", << >>)
                   ELSE Go(c, [f EXCEPT !.pc = "hset_atime",
                                        !.str = store[Data(Vol(c), f.path)]])
           [] f.pc = "hset_atime" ->
                /\ store' = HSet(store, Meta(Vol(c), f.path), [atime |-> Now])
                /\ FinOut(c, "ok", f.str)

(* ------------------------ WriteFile, AppendFile ------------------------ *)

\* the overwrite without the size field
OverwriteTxKeepSize(s, v, path, content, now) ==
  HSet(SetStr(s, Data(v, path), content), Meta(v, path), [mtime |-> now])

\* WriteFile's transaction on an existing entry
OverwriteTx(s, v, path, content, now) ==
  HSet(SetStr(s, Data(v, path), content), Meta(v, path),
       [size |-> Len(content), mtime |-> now])

WriteFile(c) ==
  \E p \in PathArgs, content \in ContentArgs :
    Begin(c, Call("WriteFile", p, Root, content, FALSE),
          Started(Frame("WriteFile", "exists", NormalizePath(Given(p)), Root, content,
                        NilMeta, << >>, 0)))

WriteFileStep(c) ==
  /\ Running(c) /\ Top(c).fn = "WriteFile"
  /\ UNCHANGED <<nops, plan>>
  /\ LET f == Top(c)
     IN  CASE f.pc = "exists" ->
                /\ UNCHANGED store
                /\ IF Exists(store, Vol(c), f.path) THEN Go(c, [f EXCEPT !.pc = "stat"])
                   ELSE Go(c, [f EXCEPT !.pc = "isdir_parent"])
           [] f.pc = "stat" ->
                /\ UNCHANGED store
                /\ IF Stat(store, Vol(c), f.path).type = "dir" THEN Fin(c, "IsADirectory")
                   ELSE Go(c, [f EXCEPT !.pc = "tx_over"])
           [] f.pc = "tx_over" ->
                /\ store' = OverwriteTx(store, Vol(c), f.path, f.str, Now)
                /\ FinNote(c, "ok", <<"write", f.path, f.str>>)
           [] f.pc = "isdir_parent" ->
                /\ UNCHANGED store
                /\ IF ~IsDir(store, Vol(c), ParentPath(f.path)) THEN Fin(c, "NotFound")
                   ELSE Go(c, [f EXCEPT !.pc = "tx_new"])
           [] f.pc = "tx_new" ->
                /\ store' = CreateFileTx(store, Vol(c), f.path, f.str, Now)
                /\ FinNote(c, "ok", <<"write", f.path, f.str>>)

AppendFile(c) ==
  \E p \in PathArgs, content \in ContentArgs :
    Begin(c, Call("AppendFile", p, Root, content, FALSE),
          Started(Frame("AppendFile", "exists", NormalizePath(Given(p)), Root, content,
                        NilMeta, << >>, 0)))

AppendFileStep(c) ==
  /\ Running(c) /\ Top(c).fn = "AppendFile"
  /\ UNCHANGED <<nops, plan>>
  /\ LET f == Top(c)
     IN  CASE f.pc = "exists" ->
                /\ UNCHANGED store
                /\ IF ~Exists(store, Vol(c), f.path)
                     THEN Go(c, [f EXCEPT !.fn = "WriteFile", !.pc = "exists"])
                   ELSE Go(c, [f EXCEPT !.pc = "stat"])
           [] f.pc = "stat" ->
                /\ UNCHANGED store
                /\ IF Stat(store, Vol(c), f.path).type = "dir" THEN Fin(c, "IsADirectory")
                   ELSE Go(c, [f EXCEPT !.pc = "tx_append"])
           [] f.pc = "tx_append" ->
                \* APPEND and STRLEN in one transaction; f.n keeps strlenCmd.Val()
                /\ store' = AppendStr(store, Data(Vol(c), f.path), f.str)
                /\ Go(c, [f EXCEPT !.pc = "hset_size",
                                   !.n = StrLen(AppendStr(store, Data(Vol(c), f.path), f.str),
                                                Data(Vol(c), f.path))])
           [] f.pc = "hset_size" ->
                /\ store' = HSet(store, Meta(Vol(c), f.path),
                                 [size |-> f.n, mtime |-> Now])
                /\ IF cl[c].observer THEN Go(c, [f EXCEPT !.pc = "get_full"])
                   ELSE Fin(c, "ok")
           [] f.pc = "get_full" ->
                /\ UNCHANGED store
                /\ IF Has(store, Data(Vol(c), f.path))
                     THEN FinNote(c, "ok", <<"write", f.path, store[Data(Vol(c), f.path)]>>)
                   ELSE Fin(c, "ok")

(* ----------------------- Remove, RemoveRecursive ----------------------- *)

\* Remove's transaction without the DEL of the content
RemoveTxKeepData(s, v, path) ==
  SRem(Del(Del(s, Meta(v, path)), Xattr(v, path)),
       Dir(v, ParentPath(path)), BaseName(path))

\* Remove's transaction without the SREM from the parent
RemoveTxKeepsMember(s, v, path) ==
  Del(Del(Del(s, Meta(v, path)), Data(v, path)), Xattr(v, path))

\* Remove's transaction
RemoveTx(s, v, path) ==
  SRem(Del(Del(Del(s, Meta(v, path)), Data(v, path)), Xattr(v, path)),
       Dir(v, ParentPath(path)), BaseName(path))

Remove(c) ==
  \E p \in PathArgs :
    Begin(c, Call("Remove", p, Root, << >>, FALSE),
          IF NormalizePath(Given(p)) = Root THEN [stack |-> << >>, res |-> "RootRefused"]
          ELSE Started(F1("Remove", "stat", NormalizePath(Given(p)))))

RemoveStep(c) ==
  /\ Running(c) /\ Top(c).fn = "Remove"
  /\ UNCHANGED <<nops, plan>>
  /\ LET f == Top(c)
     IN  CASE f.pc = "stat" ->
                /\ UNCHANGED store
                /\ LET meta == Stat(store, Vol(c), f.path)
                   IN  IF meta.type = "nil" THEN Fin(c, "NotFound")
                       ELSE IF meta.type = "dir" THEN Fin(c, "IsADirectory")
                       ELSE Go(c, [f EXCEPT !.pc = "tx"])
           [] f.pc = "tx" ->
                /\ store' = RemoveTx(store, Vol(c), f.path)
                /\ FinNote(c, "ok", <<"remove", f.path>>)

RemoveRecursive(c) ==
  \E p \in PathArgs :
    Begin(c, Call("RemoveRecursive", p, Root, << >>, FALSE),
          EnterRemoveRecursive(<< >>, NormalizePath(Given(p))))

RemoveRecursiveStep(c) ==
  /\ Running(c) /\ Top(c).fn = "RemoveRecursive"
  /\ UNCHANGED <<nops, plan>>
  /\ LET f == Top(c)
     IN  CASE f.pc = "stat" ->
                /\ UNCHANGED store
                /\ LET meta == Stat(store, Vol(c), f.path)
                   IN  IF meta.type = "nil" THEN Fin(c, "NotFound")
                       ELSE IF meta.type # "dir"
                         THEN Go(c, F1("Remove", "stat", f.path))
                       ELSE Go(c, [f EXCEPT !.pc = "readdir"])
           [] f.pc = "readdir" ->
                /\ UNCHANGED store
                /\ \E children \in Orderings(SMembers(store, Dir(Vol(c), f.path))) :
                     Into(c, LoopRemove(Append(Pop(cl[c].stack),
                                               [f EXCEPT !.kids = children])))
           [] f.pc = "tx" ->
                /\ store' = RemoveDirTx(store, Vol(c), f.path)
                /\ Fin(c, "ok")

(* ----------------------- CopyFile, CopyRecursive ----------------------- *)

\* the Metadata CopyFile writes for the copy: the source's, with fresh times
CopiedMeta(srcMeta, now) ==
  [srcMeta EXCEPT !.ctime = now, !.mtime = now, !.atime = now]

CopyFileTx(s, v, src, dst, srcMeta, data, now) ==
  HSet(SAdd(HSet(SetStr(s, Data(v, dst), data),
                 Meta(v, dst), ToMap(CopiedMeta(srcMeta, now))),
            Dir(v, ParentPath(dst)), BaseName(dst)),
       Meta(v, src), [atime |-> now])

\* dst is retargeted below an existing directory
Retarget(s, v, src, dst) ==
  IF Stat(s, v, dst).type = "dir" THEN JoinPath(dst, BaseName(src)) ELSE dst

CopyFile(c) ==
  \E src \in PathArgs, dst \in DstArgs :
    Begin(c, Call("CopyFile", src, dst, << >>, FALSE),
          Started(F2("CopyFile", "stat_dst", NormalizePath(Given(src)),
                     NormalizePath(Given(dst)))))

CopyFileStep(c) ==
  /\ Running(c) /\ Top(c).fn = "CopyFile"
  /\ UNCHANGED <<nops, plan>>
  /\ LET f == Top(c)
     IN  CASE f.pc = "stat_dst" ->
                /\ UNCHANGED store
                /\ Go(c, [f EXCEPT !.pc = "stat_src",
                                   !.dst = Retarget(store, Vol(c), f.path, f.dst)])
           [] f.pc = "stat_src" ->
                /\ UNCHANGED store
                /\ LET srcMeta == Stat(store, Vol(c), f.path)
                   IN  IF srcMeta.type = "nil" THEN Fin(c, "NotFound")
                       ELSE IF srcMeta.type = "dir" THEN Fin(c, "IsADirectory")
                       ELSE Go(c, [f EXCEPT !.pc = "get", !.m = srcMeta])
           [] f.pc = "get" ->
                \* GET of the source content: redis.Nil leaves data empty
                /\ UNCHANGED store
                /\ Go(c, [f EXCEPT !.pc = "isdir_parent",
                                   !.str = IF Has(store, Data(Vol(c), f.path))
                                             THEN store[Data(Vol(c), f.path)]
                                           ELSE << >>])
           [] f.pc = "isdir_parent" ->
                /\ UNCHANGED store
                /\ IF ~IsDir(store, Vol(c), ParentPath(f.dst)) THEN Fin(c, "NotFound")
                   ELSE Go(c, [f EXCEPT !.pc = "tx"])
           [] f.pc = "tx" ->
                /\ store' = CopyFileTx(store, Vol(c), f.path, f.dst, f.m, f.str, Now)
                /\ FinNote(c, "ok", <<"write", f.dst, f.str>>)

CopyRecursive(c) ==
  \E src \in PathArgs, dst \in DstArgs :
    Begin(c, Call("CopyRecursive", src, dst, << >>, FALSE),
          EnterCopyRecursive(<< >>, NormalizePath(Given(src)), NormalizePath(Given(dst))))

CopyRecursiveStep(c) ==
  /\ Running(c) /\ Top(c).fn = "CopyRecursive"
  /\ UNCHANGED <<nops, plan>>
  /\ UNCHANGED store
  /\ LET f == Top(c)
     IN  CASE f.pc = "stat_src" ->
                LET srcMeta == Stat(store, Vol(c), f.path)
                IN  IF srcMeta.type = "nil" THEN Fin(c, "NotFound")
                    ELSE Go(c, [f EXCEPT !.pc = "stat_dst", !.m = srcMeta])
           [] f.pc = "stat_dst" ->
                LET dst == Retarget(store, Vol(c), f.path, f.dst)
                IN  IF f.m.type # "dir"
                      THEN Go(c, F2("CopyFile", "stat_dst", f.path, dst))
                    ELSE Into(c, EnterMkdir(Append(Pop(cl[c].stack),
                                                   [f EXCEPT !.pc = "mkdir", !.dst = dst]),
                                            dst, TRUE))
           [] f.pc = "readdir" ->
                \E children \in Orderings(SMembers(store, Dir(Vol(c), f.path))) :
                  Into(c, LoopCopy(Append(Pop(cl[c].stack), [f EXCEPT !.kids = children])))

(* -------------------------------- Move --------------------------------- *)

\* moveFile's transaction: every command runs, the first error is returned
\* moveFile's transaction without the SREM from the old parent
MoveFileTxKeepsMember(s, v, src, dst) ==
  SAdd(Rename(Rename(s, Meta(v, src), Meta(v, dst)), Data(v, src), Data(v, dst)),
       Dir(v, ParentPath(dst)), BaseName(dst))

\* moveFile's transaction
MoveFileTx(s, v, src, dst) ==
  SAdd(SRem(Rename(Rename(s, Meta(v, src), Meta(v, dst)),
                   Data(v, src), Data(v, dst)),
            Dir(v, ParentPath(src)), BaseName(src)),
       Dir(v, ParentPath(dst)), BaseName(dst))
MoveFileTxErr(s, v, src, dst) ==
  \/ ~RenameOk(s, Meta(v, src), Meta(v, dst))
  \/ ~RenameOk(Rename(s, Meta(v, src), Meta(v, dst)), Data(v, src), Data(v, dst))

Move(c) ==
  \E src \in PathArgs, dst \in DstArgs :
    Begin(c, Call("Move", src, dst, << >>, FALSE),
          Started(F2("Move", "stat_src", NormalizePath(Given(src)),
                     NormalizePath(Given(dst)))))

MoveStep(c) ==
  /\ Running(c) /\ Top(c).fn = "Move"
  /\ UNCHANGED <<nops, plan>>
  /\ UNCHANGED store
  /\ LET f == Top(c)
     IN  CASE f.pc = "stat_src" ->
                LET srcMeta == Stat(store, Vol(c), f.path)
                IN  IF srcMeta.type = "nil" THEN Fin(c, "NotFound")
                    ELSE Go(c, [f EXCEPT !.pc = "stat_dst", !.m = srcMeta])
           [] f.pc = "stat_dst" ->
                Go(c, [f EXCEPT !.pc = "isdir_parent",
                                !.dst = Retarget(store, Vol(c), f.path, f.dst)])
           [] f.pc = "isdir_parent" ->
                IF ~IsDir(store, Vol(c), ParentPath(f.dst)) THEN Fin(c, "NotFound")
                ELSE IF f.m.type = "dir"
                  THEN Into(c, EnterCopyRecursive(
                                 Append(Pop(cl[c].stack), F2("moveDir", "copy", f.path, f.dst)),
                                 NormalizePath(Abs(f.path)), NormalizePath(Abs(f.dst))))
                ELSE Go(c, F2("moveFile", "tx", f.path, f.dst))

MoveFileStep(c) ==
  /\ Running(c) /\ Top(c).fn = "moveFile"
  /\ UNCHANGED <<nops, plan>>
  /\ LET f == Top(c)
     IN  CASE f.pc = "tx" ->
                /\ store' = MoveFileTx(store, Vol(c), f.path, f.dst)
                /\ IF MoveFileTxErr(store, Vol(c), f.path, f.dst) THEN Fin(c, "NoSuchKey")
                   ELSE Go(c, [f EXCEPT !.pc = "rename_xattr"])
           [] f.pc = "rename_xattr" ->
                \* best effort: the result of this RENAME is dropped
                /\ store' = Rename(store, Xattr(Vol(c), f.path), Xattr(Vol(c), f.dst))
                /\ FinNote(c, "ok", <<"move", f.path, f.dst>>)

(* ------------------------ Symlink, Chmod, Chown ------------------------ *)

SymlinkTx(s, v, linkPath, target, now) ==
  SAdd(HSet(s, Meta(v, linkPath), ToMap(NewSymlinkMeta(target, now))),
       Dir(v, ParentPath(linkPath)), BaseName(linkPath))

Symlink(c) ==
  \E target \in TargetArgs, p \in PathArgs :
    Begin(c, Call("Symlink", p, Root, TargetStr(target), FALSE),
          Started(Frame("Symlink", "exists", NormalizePath(Given(p)), Root,
                        TargetStr(target), NilMeta, << >>, 0)))

SymlinkStep(c) ==
  /\ Running(c) /\ Top(c).fn = "Symlink"
  /\ UNCHANGED <<nops, plan>>
  /\ LET f == Top(c)
     IN  CASE f.pc = "exists" ->
                /\ UNCHANGED store
                /\ IF Exists(store, Vol(c), f.path) THEN Fin(c, "AlreadyExists")
                   ELSE Go(c, [f EXCEPT !.pc = "isdir_parent"])
           [] f.pc = "isdir_parent" ->
                /\ UNCHANGED store
                /\ IF ~IsDir(store, Vol(c), ParentPath(f.path)) THEN Fin(c, "NotFound")
                   ELSE Go(c, [f EXCEPT !.pc = "tx"])
           [] f.pc = "tx" ->
                /\ store' = SymlinkTx(store, Vol(c), f.path, ParseTarget(f.str), Now)
                /\ Fin(c, "ok")

Chmod(c) ==
  \E p \in PathArgs, mode \in ModeArgs :
    Begin(c, Call("Chmod", p, Root, mode, FALSE),
          Started(Frame("Chmod", "exists", NormalizePath(Given(p)), Root, mode,
                        NilMeta, << >>, 0)))

ChmodStep(c) ==
  /\ Running(c) /\ Top(c).fn = "Chmod"
  /\ UNCHANGED <<nops, plan>>
  /\ LET f == Top(c)
     IN  CASE f.pc = "exists" ->
                /\ UNCHANGED store
                /\ IF ~Exists(store, Vol(c), f.path) THEN Fin(c, "NotFound")
                   ELSE Go(c, [f EXCEPT !.pc = "hset"])
           [] f.pc = "hset" ->
                /\ store' = HSet(store, Meta(Vol(c), f.path), [mode |-> f.str])
                /\ Fin(c, "ok")

\* the characters of a mode or owner string, and the string of a sequence
\* of characters
Words ==
  {"", "7", "8", ":", "7:", ":8", "7:8", "8:9", "7:8:9",
   "0600", "755", "0888", "rwx", "07777"}
Letters(w) ==
  CASE w = "" -> << >>
    [] w = "7:" -> <<"7", ":">>
    [] w = ":8" -> <<":", "8">>
    [] w = "7:8" -> <<"7", ":", "8">>
    [] w = "8:9" -> <<"8", ":", "9">>
    [] w = "7:8:9" -> <<"7", ":", "8", ":", "9">>
    [] w = "0600" -> <<"0", "6", "0", "0">>
    [] w = "755" -> <<"7", "5", "5">>
    [] w = "0888" -> <<"0", "8", "8", "8">>
    [] w = "rwx" -> <<"r", "w", "x">>
    [] w = "07777" -> <<"0", "7", "7", "7", "7">>
    [] OTHER -> <<w>>
Word(chars) == CHOOSE w \in Words : Letters(w) = chars

\* strings.SplitN(owner, ":", 2): the whole string when it has no colon,
\* else what is before the first colon and what is after it
SplitOwner(owner) ==
  LET chars == Letters(owner)
      colons == {i \in DOMAIN chars : chars[i] = ":"}
  IN  IF colons = {} THEN <<owner>>
      ELSE LET i == CHOOSE j \in colons : \A k \in colons : j <= k
           IN  <<Word(SubSeq(chars, 1, i - 1)),
                 Word(SubSeq(chars, i + 1, Len(chars)))>>

\* gid written whenever the owner has a colon
ChownFieldsAnyGid(parts) ==
  [x \in (IF parts[1] # "" THEN {"uid"} ELSE {})
         \cup (IF Len(parts) > 1 THEN {"gid"} ELSE {})
     |-> IF x = "uid" THEN parts[1] ELSE parts[2]]

\* the fields Chown sets: parts is the result of SplitN(owner, ":", 2)
ChownFields(parts) ==
  [x \in (IF parts[1] # "" THEN {"uid"} ELSE {})
         \cup (IF Len(parts) > 1 /\ parts[2] # "" THEN {"gid"} ELSE {})
     |-> IF x = "uid" THEN parts[1] ELSE parts[2]]

Chown(c) ==
  \E p \in PathArgs, owner \in OwnerArgs :
    Begin(c, Call("Chown", p, Root, owner, FALSE),
          Started(Frame("Chown", "exists", NormalizePath(Given(p)), Root, owner,
                        NilMeta, << >>, 0)))

ChownStep(c) ==
  /\ Running(c) /\ Top(c).fn = "Chown"
  /\ UNCHANGED <<nops, plan>>
  /\ LET f == Top(c)
     IN  CASE f.pc = "exists" ->
                /\ UNCHANGED store
                /\ IF ~Exists(store, Vol(c), f.path) THEN Fin(c, "NotFound")
                   ELSE IF DOMAIN ChownFields(SplitOwner(f.str)) = {}
                        THEN Fin(c, "InvalidArgument")
                   ELSE Go(c, [f EXCEPT !.pc = "hset"])
           [] f.pc = "hset" ->
                /\ store' = HSet(store, Meta(Vol(c), f.path),
                                 ChownFields(SplitOwner(f.str)))
                /\ Fin(c, "ok")

(* --------------------------- specification ----------------------------- *)

\* NewClient on an empty backend, with the observer main registers when the
\* backend has the search module
Init ==
  /\ store = << >>
  /\ cl = [c \in {1} |-> NewClientRec("main", TRUE)]
  /\ nops = 0
  /\ plan = [script |-> << >>, free |-> MaxOps]
  /\ calc = NoCalc

Next ==
  /\ UNCHANGED calc
  /\ \E c \in DOMAIN cl :
       \/ ClientInit(c) \/ InitStep(c)
       \/ Mkdir(c) \/ MkdirStep(c) \/ MkdirParentsStep(c)
       \/ Rmdir(c) \/ RmdirStep(c)
       \/ Touch(c) \/ TouchStep(c)
       \/ ReadDir(c) \/ ReadDirStep(c)
       \/ ReadDirWithMeta(c) \/ ReadDirWithMetaStep(c)
       \/ ReadFile(c) \/ ReadFileStep(c)
       \/ ResolveSymlinkCall(c) \/ ResolveSymlinkStep(c)
       \/ WriteFile(c) \/ WriteFileStep(c)
       \/ AppendFile(c) \/ AppendFileStep(c)
       \/ Remove(c) \/ RemoveStep(c)
       \/ RemoveRecursive(c) \/ RemoveRecursiveStep(c)
       \/ CopyFile(c) \/ CopyFileStep(c)
       \/ CopyRecursive(c) \/ CopyRecursiveStep(c)
       \/ Move(c) \/ MoveStep(c) \/ MoveFileStep(c)
       \/ Symlink(c) \/ SymlinkStep(c)
       \/ Chmod(c) \/ ChmodStep(c)
       \/ Chown(c) \/ ChownStep(c)

Spec == Init /\ [][Next]_vars

(* ------------------------------ readers -------------------------------- *)

MainVol == "main"
RootIsDir == IsDir(store, MainVol, Root)
Idle(c) == ~Running(c) /\ cl[c].res # "none"
Returned(c, op) == Idle(c) /\ cl[c].call.op = op
ArgPath(c) == NormalizePath(Handed(cl[c].call, cl[c].call.path))
ArgDst(c) == NormalizePath(Handed(cl[c].call, cl[c].call.dst))

\* what a reader of the metadata and of the content of p sees
SizeMatches(s, v, p) ==
  Exists(s, v, p) => Stat(s, v, p).size = StrLen(s, Data(v, p))
TypeOf(s, v, p) == Stat(s, v, p).type
\* the effective destination of a copy or move called on keyspace s
Effective(s, src, dst) ==
  IF TypeOf(s, MainVol, dst) = "dir" THEN dst \o <<BaseName(src)>> ELSE dst

\* ReadFile run on keyspace s with no other command in between: the result
\* and the content returned
RECURSIVE ResolveSymlink(_, _, _, _)
ResolveSymlink(s, v, path, depth) ==
  IF depth >= maxSymlinkDepth THEN [err |-> "TooManyLinks", path |-> path]
  ELSE LET h == ResolveHop(s, v, path)
       IN  IF h.kind = "done" THEN [err |-> "ok", path |-> path]
           ELSE ResolveSymlink(s, v, h.path, depth + 1)

ReadFileOf(s, v, p) ==
  LET meta == Stat(s, v, p)
  IN  IF meta.type = "nil" THEN [res |-> "NotFound", out |-> << >>]
      ELSE IF meta.type = "dir" THEN [res |-> "IsADirectory", out |-> << >>]
      ELSE LET r == IF meta.type = "symlink" THEN ResolveSymlink(s, v, p, 0)
                    ELSE [err |-> "ok", path |-> p]
           IN  IF r.err # "ok" THEN [res |-> r.err, out |-> << >>]
               ELSE IF ~Has(s, Data(v, r.path)) THEN [res |-> "ok", out |-> << >>]
               ELSE [res |-> "ok", out |-> s[Data(v, r.path)]]

(* ------------------------- prepared volumes ---------------------------- *)

\* the volume main leaves behind: NewClient, then Init on an empty backend
InitializedVolume == HSet(<< >>, Meta(MainVol, Root), ToMap(NewDirMeta(0)))

\* the caller runs one of the scripts of a list, then FreeOps operations of its choice
InitScripted(scripts) ==
  /\ store = InitializedVolume
  /\ cl = [c \in {1} |-> NewClientRec(MainVol, TRUE)]
  /\ nops = 0
  /\ \E i \in DOMAIN scripts : plan = [script |-> scripts[i], free |-> FreeOps]
  /\ calc = NoCalc

MkdirP(p) == Call("Mkdir", p, Root, << >>, TRUE)
Write(p, content) == Call("WriteFile", p, Root, content, FALSE)
Link(p, target) == Call("Symlink", p, Root, TargetStr(target), FALSE)
Rm(p) == Call("Remove", p, Root, << >>, FALSE)

\* /a is a directory holding the file a and the directory b
TreeA == <<MkdirP(<<"a", "b">>), Write(<<"a", "a">>, <<"x">>)>>
\* /a is a file that mkdir -p gave a child
FileWithChild == <<Write(<<"a">>, <<"x">>), MkdirP(<<"a", "a">>)>>

TreeScripts ==
  << << >>,
    TreeA,
    TreeA \o <<MkdirP(<<"b">>)>>,
    TreeA \o <<Write(<<"b">>, <<"y", "y">>)>>,
    TreeA \o <<Link(<<"b">>, Abs(<<"a", "a">>))>>,
    TreeA \o <<MkdirP(<<"b", "a">>)>>,
    TreeA \o <<MkdirP(<<"b", "a", "a">>)>>,
    TreeA \o <<MkdirP(<<"b", "a", "b">>)>>,
    FileWithChild,
    FileWithChild \o <<Rm(<<"a">>)>>,
    <<Write(<<"a">>, <<"x">>), Write(<<"b">>, <<"y", "y">>)>>,
    <<Write(<<"a">>, <<"x">>), Link(<<"b">>, Rel(<<"a">>))>>,
    <<Link(<<"a">>, Rel(<<"b">>)), Write(<<"a">>, <<"x">>), Write(<<"b">>, <<"y", "y">>)>>,
    <<MkdirP(<<"a">>), Write(<<"a", "a">>, <<"x">>), Write(<<"a", "b">>, <<"y", "y">>),
      MkdirP(<<"b">>)>>,
    <<MkdirP(<<"a", "a">>), Write(<<"a", "a", "a">>, <<"x">>)>> >>

InitTree == InitScripted(TreeScripts)
SpecTree == InitTree /\ [][Next]_vars

(* --------------------------- path strings ------------------------------ *)

\* a call whose path strings have no leading slash
Relatively(call) == [call EXCEPT !.rel = TRUE]

\* calls of the mutating operations with path strings that are not in
\* normal form: "." and ".." components, repeated and trailing slashes,
\* rooted and relative
PathScripts ==
  << \* "/a/./b/", "/a//a", "/a/b/../b/"
     <<MkdirP(<<"a", ".", "b", "">>), Write(<<"a", "", "a">>, <<"x">>),
       Call("Touch", <<"a", "b", "..", "b", "">>, Root, << >>, FALSE)>>,
     \* "/../a", "/a/../../b"
     <<Write(<<"..", "a">>, <<"x">>), MkdirP(<<"a", "..", "..", "b">>),
       Call("CopyFile", <<".", "a">>, <<"b", "", ".">>, << >>, FALSE),
       Call("Move", <<"a", "">>, <<"b", "..", "a", "a">>, << >>, FALSE)>>,
     \* "a/./b//", "./a/a", "b/../a/b/"
     <<Relatively(MkdirP(<<"a", ".", "b", "", "">>)),
       Relatively(Write(<<".", "a", "a">>, <<"x">>)),
       Relatively(Call("AppendFile", <<"b", "..", "a", "a">>, Root, <<"y", "y">>, FALSE)),
       Relatively(Call("Rmdir", <<"b", "..", "a", "b", "">>, Root, << >>, FALSE))>>,
     \* "../a"
     <<Relatively(Call("Mkdir", <<"..", "a">>, Root, << >>, FALSE))>>,
     \* "a/../../b"
     <<Relatively(Write(<<"a", "..", "..", "b">>, <<"x">>))>>,
     \* "a", then "../b" as the destination of a copy
     <<Write(<<"a">>, <<"x">>),
       Relatively(Call("CopyFile", <<"a">>, <<"..", "b">>, << >>, FALSE))>>,
     \* a link at "../a"
     <<Relatively(Link(<<"..", "a">>, Abs(<<"b">>)))>> >>

InitPaths == InitScripted(PathScripts)
SpecPaths == InitPaths /\ [][Next]_vars

(* ---------------------------- attributes ------------------------------- *)

\* owner strings with both halves, one half, no half and a second colon;
\* mode strings that are octal permissions and that are not
OwnerStrings == <<"7:8", "7", "7:", ":8", ":", "", "7:8:9">>
ModeStrings == <<"0600", "755", "0888", "rwx", "", "07777">>
ChownOf(p, owner) == Call("Chown", p, Root, owner, FALSE)
ChmodOf(p, mode) == Call("Chmod", p, Root, mode, FALSE)

\* the attributes of a file, of a directory with members and of a missing
\* path are set
AttrScripts ==
  [i \in DOMAIN OwnerStrings |-> <<Write(<<"a">>, <<"x">>), ChownOf(<<"a">>, OwnerStrings[i])>>]
  \o [i \in DOMAIN ModeStrings |-> <<Write(<<"a">>, <<"x">>), ChmodOf(<<"a">>, ModeStrings[i])>>]
  \o << <<MkdirP(<<"a", "b">>), ChownOf(<<"a">>, "7")>>,
        <<MkdirP(<<"a", "b">>), ChmodOf(<<"a">>, "755")>>,
        <<ChownOf(<<"a">>, "7:8")>>,
        <<ChownOf(<<"a">>, "")>>,
        <<ChmodOf(<<"a">>, "0600")>>,
        <<ChmodOf(<<"a">>, "rwx")>> >>

InitAttrs == InitScripted(AttrScripts)
\* a caller that makes directories and files and sets modes and owners
NextAttrs ==
  /\ UNCHANGED calc
  /\ \E c \in DOMAIN cl :
    \/ Mkdir(c) \/ MkdirStep(c) \/ MkdirParentsStep(c)
    \/ WriteFile(c) \/ WriteFileStep(c)
    \/ Chmod(c) \/ ChmodStep(c)
    \/ Chown(c) \/ ChownStep(c)
SpecAttrs == InitAttrs /\ [][NextAttrs]_vars

(* ----------------------------- two clients ---------------------------- *)

\* two clients of one volume; a client takes the next call of the script
\* whenever it is idle, so calls of the two overlap command by command
RaceOf(op, str) == Call(op, <<"a">>, Root, str, FALSE)
RacingCalls ==
  <<RaceOf("Touch", << >>), RaceOf("Chmod", "0600"), RaceOf("Chown", "7:8"),
    RaceOf("AppendFile", <<"y", "y">>), RaceOf("ReadFile", << >>)>>
\* the file /a is written; then it is removed while it is touched, changed,
\* appended to or read, or it is appended to twice
RaceScripts ==
  [i \in DOMAIN RacingCalls |-> <<Write(<<"a">>, <<"x">>), Rm(<<"a">>), RacingCalls[i]>>]
  \o [i \in DOMAIN RacingCalls |-> <<Write(<<"a">>, <<"x">>), RacingCalls[i], Rm(<<"a">>)>>]
  \o << <<Write(<<"a">>, <<"x">>), RaceOf("AppendFile", <<"y", "y">>),
          RaceOf("AppendFile", <<"x">>)>> >>

InitRace ==
  /\ store = InitializedVolume
  /\ cl = [c \in {1, 2} |-> NewClientRec(MainVol, TRUE)]
  /\ nops = 0
  /\ \E i \in DOMAIN RaceScripts : plan = [script |-> RaceScripts[i], free |-> 0]
  /\ calc = NoCalc
NextRace ==
  /\ UNCHANGED calc
  /\ \E c \in DOMAIN cl :
    \/ WriteFile(c) \/ WriteFileStep(c)
    \/ Touch(c) \/ TouchStep(c)
    \/ Chmod(c) \/ ChmodStep(c)
    \/ Chown(c) \/ ChownStep(c)
    \/ AppendFile(c) \/ AppendFileStep(c)
    \/ ReadFile(c) \/ ReadFileStep(c)
    \/ Remove(c) \/ RemoveStep(c)
SpecRace == InitRace /\ [][NextRace]_vars

(* ------------------------ functions on their own ----------------------- *)

\* no volume and no call: only a function is evaluated
NoVolume ==
  /\ store = << >>
  /\ cl = [c \in {1} |-> NewClientRec(MainVol, TRUE)]
  /\ nops = 0
  /\ plan = [script |-> << >>, free |-> 0]

\* path strings of MaxLen components at most, rooted and relative, built
\* from names, ".", ".." and empty components
PathComps == {"a", "b", ".", "..", ""}
PathStrings ==
  {[abs |-> b, comps |-> q] : b \in BOOLEAN,
                              q \in UNION {[1..k -> PathComps] : k \in 0..MaxLen}}

InitNormalize ==
  /\ NoVolume
  /\ \E s \in PathStrings :
       calc = [fn |-> "NormalizePath", arg |-> s, once |-> Root, twice |-> Root, n |-> 0]
\* NormalizePath(p), and NormalizePath of the string it returned, which
\* starts with a slash
NormalizeOnce ==
  /\ calc.fn = "NormalizePath" /\ calc.n = 0
  /\ calc' = [calc EXCEPT !.once = NormalizePath(calc.arg), !.n = 1]
  /\ UNCHANGED <<store, cl, nops, plan>>
NormalizeAgain ==
  /\ calc.fn = "NormalizePath" /\ calc.n = 1
  /\ calc' = [calc EXCEPT !.twice = NormalizePath(Abs(calc.once)), !.n = 2]
  /\ UNCHANGED <<store, cl, nops, plan>>
NextNormalize == NormalizeOnce \/ NormalizeAgain
SpecNormalize == InitNormalize /\ [][NextNormalize]_vars

\* globMatch: the loop over name with the pattern index px, the name index
\* nx and the place of the last star (indices count from 0, -1 is no star)
RECURSIVE GlobLoop(_, _, _, _, _, _)
GlobLoop(pattern, name, px, nx, starPx, starNx) ==
  IF nx < Len(name)
    THEN IF px < Len(pattern) /\ (pattern[px + 1] = "?" \/ pattern[px + 1] = name[nx + 1])
           THEN GlobLoop(pattern, name, px + 1, nx + 1, starPx, starNx)
         ELSE IF px < Len(pattern) /\ pattern[px + 1] = "*"
           THEN GlobLoop(pattern, name, px + 1, nx, px, nx)
         ELSE IF starPx >= 0
           THEN GlobLoop(pattern, name, starPx + 1, starNx + 1, starPx, starNx + 1)
         ELSE FALSE
  ELSE IF px < Len(pattern) /\ pattern[px + 1] = "*"
    THEN GlobLoop(pattern, name, px + 1, nx, starPx, starNx)
  ELSE px = Len(pattern)

globMatch(pattern, name) ==
  IF pattern = <<"*">> THEN TRUE ELSE GlobLoop(pattern, name, 0, 0, -1, -1)

\* patterns and names of MaxLen characters at most
GlobChars == {"a", "b", "*", "?"}
GlobStrings == UNION {[1..k -> GlobChars] : k \in 0..MaxLen}

InitGlob ==
  /\ NoVolume
  /\ \E pattern \in GlobStrings, name \in GlobStrings :
       calc = [fn |-> "globMatch", pattern |-> pattern, name |-> name,
               out |-> FALSE, n |-> 0]
GlobMatchCall ==
  /\ calc.fn = "globMatch" /\ calc.n = 0
  /\ calc' = [calc EXCEPT !.out = globMatch(calc.pattern, calc.name), !.n = 1]
  /\ UNCHANGED <<store, cl, nops, plan>>
SpecGlob == InitGlob /\ [][GlobMatchCall]_vars

\* EscapeQuery: the characters it escapes, in the order it goes through them
special ==
  <<",", ".", "<", ">", "{", "}", "[", "]", "\"", "'", ":", ";", "!", "@",
    "#", "$", "%", "^", "&", "*", "(", ")", "-", "+", "=", "~">>
\* strings.ReplaceAll(s, ch, "\\" + ch) for a single character ch
RECURSIVE ReplaceAll(_, _)
ReplaceAll(s, ch) ==
  IF s = << >> THEN << >>
  ELSE (IF Head(s) = ch THEN <<"\\", ch>> ELSE <<Head(s)>>) \o ReplaceAll(Tail(s), ch)
RECURSIVE EscapeLoop(_, _)
EscapeLoop(result, i) ==
  IF i > Len(special) THEN result ELSE EscapeLoop(ReplaceAll(result, special[i]), i + 1)
EscapeQuery(s) == EscapeLoop(s, 1)

\* query strings of MaxLen characters at most: two of the special
\* characters, the backslash and an ordinary character
QueryChars == {".", "*", "\\", "a"}
QueryStrings == UNION {[1..k -> QueryChars] : k \in 0..MaxLen}

InitEscape ==
  /\ NoVolume
  /\ \E s \in QueryStrings : calc = [fn |-> "EscapeQuery", arg |-> s, out |-> << >>, n |-> 0]
EscapeQueryCall ==
  /\ calc.fn = "EscapeQuery" /\ calc.n = 0
  /\ calc' = [calc EXCEPT !.out = EscapeQuery(calc.arg), !.n = 1]
  /\ UNCHANGED <<store, cl, nops, plan>>
SpecEscape == InitEscape /\ [][EscapeQueryCall]_vars

(* ------------------------------ Find, Tree ----------------------------- *)

\* the characters of an entry name
Spelling(name) ==
  CASE name = "ab" -> <<"a", "b">>
    [] name = "a*" -> <<"a", "*">>
    [] OTHER -> <<name>>

matchesFind(path, meta, namePattern, typeFilter) ==
  /\ typeFilter = "f" => meta.type = "file"
  /\ typeFilter = "d" => meta.type = "dir"
  /\ typeFilter = "l" => meta.type = "symlink"
  /\ namePattern # << >> => globMatch(namePattern, Spelling(BaseName(path)))

\* findWalk: the result lists it can append, one for each order in which
\* ReadDir hands out the children
RECURSIVE findWalk(_, _, _, _, _)
RECURSIVE FindChildren(_, _, _, _, _, _)
findWalk(s, v, path, namePattern, typeFilter) ==
  LET meta == Stat(s, v, path)
      here == IF matchesFind(path, meta, namePattern, typeFilter)
                THEN <<[Path |-> path, Meta |-> meta]>> ELSE << >>
  IN  IF meta.type = "nil" THEN {<< >>}
      ELSE IF meta.type # "dir" THEN {here}
      ELSE {here \o r :
              r \in UNION {FindChildren(s, v, path, q, namePattern, typeFilter) :
                             q \in Orderings(SMembers(s, Dir(v, path)))}}
FindChildren(s, v, path, children, namePattern, typeFilter) ==
  IF children = << >> THEN {<< >>}
  ELSE {a \o b :
          a \in findWalk(s, v, JoinPath(path, Head(children)), namePattern, typeFilter),
          b \in FindChildren(s, v, path, Tail(children), namePattern, typeFilter)}

\* name patterns, type filters and depths handed to Find and Tree
FindPatterns == {<< >>, <<"a">>, <<"?">>, <<"*", "?">>}
FindFilters == {"", "f", "d", "l"}
TreeDepths == {0, 1, 2}
PatternArgs == IF Scripted THEN {Head(plan.script).str} ELSE FindPatterns
FilterArgs == IF Scripted THEN {Head(plan.script).filter} ELSE FindFilters
DepthArgs == IF Scripted THEN {Head(plan.script).depth} ELSE TreeDepths

Find(c) ==
  \E p \in PathArgs, namePattern \in PatternArgs, typeFilter \in FilterArgs :
    Begin(c, [Call("Find", p, Root, namePattern, FALSE) EXCEPT !.filter = typeFilter],
          Started(Frame("Find", "walk", NormalizePath(Given(p)), Root, namePattern,
                        NilMeta, << >>, 0)))

FindStep(c) ==
  /\ Running(c) /\ Top(c).fn = "Find"
  /\ UNCHANGED <<nops, plan, store>>
  /\ \E r \in findWalk(store, Vol(c), Top(c).path, Top(c).str, cl[c].call.filter) :
       FinOut(c, "ok", r)

NoChildren == [children |-> << >>, dirs |-> 0, files |-> 0]
TreeEntry(name, path, type, children) ==
  [Name |-> name, Path |-> path, Type |-> type, Children |-> children]

\* buildTree: the children it can append to an entry and what it adds to
\* dirCount and fileCount, one result for each order of the children
RECURSIVE buildTree(_, _, _, _, _)
RECURSIVE BuildChildren(_, _, _, _, _, _)
buildTree(s, v, path, depth, maxDepth) ==
  IF maxDepth > 0 /\ depth > maxDepth THEN {NoChildren}
  ELSE UNION {BuildChildren(s, v, path, q, depth, maxDepth) :
                q \in Orderings(SMembers(s, Dir(v, path)))}
BuildChildren(s, v, path, children, depth, maxDepth) ==
  IF children = << >> THEN {NoChildren}
  ELSE LET childName == Head(children)
           childPath == JoinPath(path, childName)
           childMeta == Stat(s, v, childPath)
           rest == BuildChildren(s, v, path, Tail(children), depth, maxDepth)
       IN  IF childMeta.type = "nil" THEN rest
           ELSE IF childMeta.type = "dir"
             THEN {[children |-> <<TreeEntry(childName, childPath, "dir", sub.children)>>
                                   \o r.children,
                    dirs |-> 1 + sub.dirs + r.dirs,
                    files |-> sub.files + r.files] :
                     sub \in buildTree(s, v, childPath, depth + 1, maxDepth), r \in rest}
           ELSE {[children |-> <<TreeEntry(childName, childPath, childMeta.type, << >>)>>
                                 \o r.children,
                  dirs |-> r.dirs, files |-> 1 + r.files] : r \in rest}

Tree(c) ==
  \E p \in PathArgs, maxDepth \in DepthArgs :
    Begin(c, [Call("Tree", p, Root, << >>, FALSE) EXCEPT !.depth = maxDepth],
          Started(F1("Tree", "stat", NormalizePath(Given(p)))))

TreeStep(c) ==
  /\ Running(c) /\ Top(c).fn = "Tree"
  /\ UNCHANGED <<nops, plan, store>>
  /\ LET root == Top(c).path
         meta == Stat(store, Vol(c), root)
     IN  IF meta.type = "nil" THEN Fin(c, "NotFound")
         ELSE IF meta.type = "dir"
           THEN \E r \in buildTree(store, Vol(c), root, 1, cl[c].call.depth) :
                  FinOut(c, "ok", [entry |-> TreeEntry(BaseName(root), root, "dir", r.children),
                                   dirCount |-> r.dirs, fileCount |-> r.files])
         ELSE FinOut(c, "ok", [entry |-> TreeEntry(BaseName(root), root, meta.type, << >>),
                               dirCount |-> 0, fileCount |-> 1])

\* volumes to walk: the prepared trees, and entries whose names hold a star
WalkScripts ==
  TreeScripts \o
  << <<Write(<<"*">>, <<"x">>)>>,
     <<MkdirP(<<"a">>), Write(<<"a", "a*">>, <<"x">>), Write(<<"a", "ab">>, <<"x">>)>> >>

InitWalk == InitScripted(WalkScripts)
\* a caller that makes directories, files and links, removes entries, and
\* lists what is there
NextWalk ==
  /\ UNCHANGED calc
  /\ \E c \in DOMAIN cl :
       \/ Mkdir(c) \/ MkdirStep(c) \/ MkdirParentsStep(c)
       \/ WriteFile(c) \/ WriteFileStep(c)
       \/ Symlink(c) \/ SymlinkStep(c)
       \/ Remove(c) \/ RemoveStep(c)
       \/ ReadDir(c) \/ ReadDirStep(c)
       \/ Find(c) \/ FindStep(c)
       \/ Tree(c) \/ TreeStep(c)
SpecWalk == InitWalk /\ [][NextWalk]_vars

(* ----------------------------- link chains ----------------------------- *)

\* the i-th link of a chain: /a, then /l2, /l3, ...
ChainLink(i) == IF i = 1 THEN <<"a">> ELSE <<"l" \o ToString(i)>>
\* the target of the i-th link of n: the next link, or the file /b after the
\* last one; every second target is relative
ChainTarget(i, n) ==
  LET next == IF i = n THEN <<"b">> ELSE ChainLink(i + 1)
  IN  IF i % 2 = 0 THEN Rel(next) ELSE Abs(next)
\* the calls that make the file /b and a chain of n links from /a to it
Chain(n) ==
  <<Write(<<"b">>, <<"x">>)>> \o [i \in 1..n |-> Link(ChainLink(i), ChainTarget(i, n))]
\* chain lengths around the limit of ResolveSymlink
ChainLengths == <<1, 2, maxSymlinkDepth - 1, maxSymlinkDepth, maxSymlinkDepth + 1>>

LinkScripts ==
  [i \in DOMAIN ChainLengths |-> Chain(ChainLengths[i])] \o
  << \* a link to itself
     <<Link(<<"a">>, Rel(<<"a">>))>>,
     \* a cycle of two links
     <<Link(<<"a">>, Abs(<<"b">>)), Link(<<"b">>, Rel(<<"a">>))>>,
     \* a link to nothing
     <<Link(<<"a">>, Abs(<<"b">>))>>,
     \* /b -> a/a, /a/a -> b beside it: the file /a/b
     <<MkdirP(<<"a">>), Write(<<"a", "b">>, <<"x">>),
       Link(<<"a", "a">>, Rel(<<"b">>)), Link(<<"b">>, Rel(<<"a", "a">>))>>,
     \* /a/a -> ../b: the file /b, beside the file /a/b
     <<MkdirP(<<"a">>), Write(<<"a", "b">>, <<"x">>), Write(<<"b">>, <<"y", "y">>),
       Link(<<"a", "a">>, Rel(<<"..", "b">>))>>,
     \* an absolute target that is not in normal form
     <<Write(<<"b">>, <<"y", "y">>), Link(<<"a">>, Abs(<<"a", "..", "b">>))>> >>

InitLinks == InitScripted(LinkScripts)
\* a caller that makes directories, files and links, removes entries,
\* resolves links and reads files
NextLinks ==
  /\ UNCHANGED calc
  /\ \E c \in DOMAIN cl :
    \/ Mkdir(c) \/ MkdirStep(c) \/ MkdirParentsStep(c)
    \/ WriteFile(c) \/ WriteFileStep(c)
    \/ Symlink(c) \/ SymlinkStep(c)
    \/ Remove(c) \/ RemoveStep(c)
    \/ ResolveSymlinkCall(c) \/ ResolveSymlinkStep(c)
    \/ ReadFile(c) \/ ReadFileStep(c)
SpecLinks == InitLinks /\ [][NextLinks]_vars
\* an operation that was called runs until it returns
FairLinks ==
  SpecLinks /\ WF_vars(/\ UNCHANGED calc
                       /\ \E c \in DOMAIN cl : ResolveSymlinkStep(c) \/ ReadFileStep(c))

(* ------------------------------- claims -------------------------------- *)

\* C1: on an initialized volume, after every operation and between any two
\* backend round trips of one, a non-root path has a metadata record iff
\* its basename is in its parent's membership set.
C1_MetaIffMember ==
  RootIsDir =>
    \A k \in DOMAIN store :
      /\ (k.class = "meta" /\ k.path # Root) =>
           BaseName(k.path) \in SMembers(store, Dir(k.vol, ParentPath(k.path)))
      /\ k.class = "dir" =>
           \A name \in store[k] : Has(store, Meta(k.vol, JoinPath(k.path, name)))

\* a recursive removal is between the transaction that removed a child and
\* the one that removes the directory
C1_Witness ==
  /\ RootIsDir
  /\ Running(1) /\ cl[1].call.op = "RemoveRecursive"
  /\ Top(1).fn = "RemoveRecursive" /\ Top(1).pc = "tx"
  /\ store # cl[1].pre

\* C2: whenever no operation is running, every entry of type file has a
\* content record and a size field equal to its length.
C2_SizeIsLength ==
  (\A c \in DOMAIN cl : ~Running(c)) =>
    \A k \in DOMAIN store :
      (k.class = "meta" /\ TypeOf(store, k.vol, k.path) = "file") =>
        /\ Has(store, Data(k.vol, k.path))
        /\ Stat(store, k.vol, k.path).size = Len(store[Data(k.vol, k.path)])

\* an overwrite of an existing file with content of another length returned
C2_Witness ==
  /\ Returned(1, "WriteFile") /\ cl[1].res = "ok"
  /\ TypeOf(cl[1].pre, MainVol, ArgPath(1)) = "file"
  /\ Len(cl[1].pre[Data(MainVol, ArgPath(1))]) # Len(cl[1].call.str)

\* C3: between any two backend round trips of a running WriteFile or
\* AppendFile, a reader of the path sees a size equal to the content's
\* length (given that it did when the operation was called).
C3_AtomicSizeAndContent ==
  \A c \in DOMAIN cl :
    (/\ Running(c) /\ cl[c].call.op \in {"WriteFile", "AppendFile"}
     /\ SizeMatches(cl[c].pre, Vol(c), ArgPath(c)))
      => SizeMatches(store, Vol(c), ArgPath(c))

\* C4: on an initialized volume every path with a non-empty membership set
\* has a metadata record of type dir.
C4_MembersOnlyInDirs ==
  RootIsDir =>
    \A k \in DOMAIN store : k.class = "dir" => IsDir(store, k.vol, k.path)

\* an operation was called on a volume whose root is a directory and found
\* a file where it then left a membership set
C4_Witness ==
  /\ RootIsDir
  /\ \E k \in DOMAIN store : k.class = "dir" /\ k.path # Root

\* C5: once Init has returned the root has a metadata record of type dir; a
\* root of type dir stays one under every step of every operation; and the
\* steps of an Init called when the root record exists change no key.
C5_RootStaysDir ==
  /\ [](Returned(1, "Init") => RootIsDir)
  /\ [][RootIsDir => RootIsDir']_vars
  /\ [][(/\ Running(1) /\ cl[1].call.op = "Init"
         /\ Exists(cl[1].pre, MainVol, Root)) => store' = store]_vars

\* an Init called after another operation, on a volume that has its root,
\* returned
C5_Witness ==
  /\ Returned(1, "Init") /\ Exists(cl[1].pre, MainVol, Root)
  /\ nops > 0

\* C6: a content record exists only for paths whose metadata type is file.
C6_ContentOnlyForFiles ==
  \A k \in DOMAIN store :
    k.class = "data" => TypeOf(store, k.vol, k.path) = "file"

\* C7: when WriteFile(f, c) returns success on a path that was absent below
\* a directory or was a file or a symlink, ReadFile(f) returns c and
\* Stat(f).size is the length of c.
C7_WriteThenRead ==
  (/\ Returned(1, "WriteFile") /\ cl[1].res = "ok"
   /\ \/ /\ ~Exists(cl[1].pre, MainVol, ArgPath(1))
         /\ IsDir(cl[1].pre, MainVol, ParentPath(ArgPath(1)))
      \/ TypeOf(cl[1].pre, MainVol, ArgPath(1)) \in {"file", "symlink"})
    => /\ ReadFileOf(store, MainVol, ArgPath(1)) = [res |-> "ok", out |-> cl[1].call.str]
       /\ Stat(store, MainVol, ArgPath(1)).size = Len(cl[1].call.str)

\* C8: two AppendFile calls in a row on a path the first one found absent
\* below a directory leave the two contents concatenated and the size their
\* total length; and AppendFile on an existing file or symlink leaves the
\* old content followed by the new one and the size equal to the actual
\* length of the content.
C8_AppendAppends ==
  (Returned(1, "AppendFile") /\ cl[1].res = "ok") =>
    LET f == ArgPath(1)
        old == IF Has(cl[1].pre, Data(MainVol, f)) THEN cl[1].pre[Data(MainVol, f)]
               ELSE << >>
    IN  /\ (cl[1].prev.op = "AppendFile" /\ cl[1].prev.absent) =>
              /\ store[Data(MainVol, f)] = cl[1].prev.str \o cl[1].call.str
              /\ Stat(store, MainVol, f).size = Len(cl[1].prev.str) + Len(cl[1].call.str)
        /\ TypeOf(cl[1].pre, MainVol, f) \in {"file", "symlink"} =>
              /\ store[Data(MainVol, f)] = old \o cl[1].call.str
              /\ Stat(store, MainVol, f).size = Len(store[Data(MainVol, f)])

\* the second of two appends to a path that was absent returned
C8_Witness ==
  /\ Returned(1, "AppendFile") /\ cl[1].res = "ok"
  /\ cl[1].prev.op = "AppendFile" /\ cl[1].prev.absent
  /\ cl[1].prev.str # cl[1].call.str

\* C9: Mkdir(d, parents = false) on a non-root path returns success exactly
\* when parent(d) is a directory and d has no metadata record; then d is a
\* directory and a member of its parent's set; otherwise no key changes.
C9_MkdirPlain ==
  (Returned(1, "Mkdir") /\ ~cl[1].call.parents /\ ArgPath(1) # Root) =>
    LET d == ArgPath(1)
        can == /\ IsDir(cl[1].pre, MainVol, ParentPath(d))
               /\ ~Exists(cl[1].pre, MainVol, d)
    IN  /\ cl[1].res = "ok" <=> can
        /\ cl[1].res = "ok" =>
             /\ IsDir(store, MainVol, d)
             /\ BaseName(d) \in SMembers(store, Dir(MainVol, ParentPath(d)))
        /\ cl[1].res # "ok" => store = cl[1].pre

\* a plain Mkdir below a first-level directory returned success
C9_Witness ==
  /\ Returned(1, "Mkdir") /\ ~cl[1].call.parents /\ cl[1].res = "ok"
  /\ Len(ArgPath(1)) = 2

\* the proper ancestors of a path, root included
Ancestors(p) == {SubSeq(p, 1, n) : n \in 0..(Len(p) - 1)}

\* C10: Mkdir(path, parents = true) returns NotADirectory and changes no key
\* when a proper ancestor of path is a file or a symlink; when every
\* existing ancestor is a directory it returns success, every component is
\* a directory afterwards and the records that existed are unchanged.
C10_MkdirParents ==
  (Returned(1, "Mkdir") /\ cl[1].call.parents /\ RootIsDir) =>
    LET d == ArgPath(1)
    IN  IF \E a \in Ancestors(d) : TypeOf(cl[1].pre, MainVol, a) \in {"file", "symlink"}
          THEN cl[1].res = "NotADirectory" /\ store = cl[1].pre
        ELSE /\ cl[1].res = "ok"
             /\ \A a \in Ancestors(d) : IsDir(store, MainVol, a)
             /\ \A k \in DOMAIN cl[1].pre :
                  k.class # "dir" => (Has(store, k) /\ store[k] = cl[1].pre[k])

\* C11: Rmdir(d) on a non-root path returns NotEmpty exactly when the
\* membership set of d was non-empty when it was called.
C11_RmdirNotEmptyIff ==
  (Returned(1, "Rmdir") /\ ArgPath(1) # Root) =>
    (cl[1].res = "NotEmpty" <=> SMembers(cl[1].pre, Dir(MainVol, ArgPath(1))) # {})

\* s2 is s1 without the metadata, content and xattr records of p and without
\* basename(p) in the set of parent(p); every other key is as it was
RemovedFrom(s1, s2, p) ==
  LET own == {Meta(MainVol, p), Data(MainVol, p), Xattr(MainVol, p)}
      up == Dir(MainVol, ParentPath(p))
  IN  /\ \A k \in own : ~Has(s2, k)
      /\ SMembers(s2, up) = SMembers(s1, up) \ {BaseName(p)}
      /\ DOMAIN s2 \subseteq DOMAIN s1
      /\ \A k \in DOMAIN s1 \ (own \cup {up}) : Has(s2, k) /\ s2[k] = s1[k]

\* what C12 says of every path but the root
RemoveOffRoot(p) ==
  LET t == TypeOf(cl[1].pre, MainVol, p)
  IN  /\ cl[1].res = "ok" <=> (t # "nil" /\ t # "dir")
      /\ cl[1].res = "ok" => RemovedFrom(cl[1].pre, store, p)
      /\ t = "nil" => (cl[1].res = "NotFound" /\ store = cl[1].pre)
      /\ t = "dir" => (cl[1].res = "IsADirectory" /\ store = cl[1].pre)

AtOrBelow(d, p) == Len(p) >= Len(d) /\ SubSeq(p, 1, Len(d)) = d

\* C13: after RemoveRecursive(d) returns success there is no metadata,
\* content, membership or xattr record for d or for a path below d, and
\* basename(d) is not in the membership set of parent(d).
C13_RemoveRecursiveLeavesNothing ==
  (Returned(1, "RemoveRecursive") /\ cl[1].res = "ok") =>
    /\ \A k \in DOMAIN store : ~AtOrBelow(ArgPath(1), k.path)
    /\ BaseName(ArgPath(1)) \notin SMembers(store, Dir(MainVol, ParentPath(ArgPath(1))))

\* Move was called with a file as src and an effective destination whose
\* parent is a directory
MovesFile ==
  /\ cl[1].call.op = "Move"
  /\ TypeOf(cl[1].pre, MainVol, ArgPath(1)) = "file"
  /\ IsDir(cl[1].pre, MainVol, ParentPath(Effective(cl[1].pre, ArgPath(1), ArgDst(1))))

\* s2 is s1 with the records of src moved to e: src has no metadata and no
\* content and has left its parent's set, e holds the metadata and content
\* src had and is in its parent's set, every other record is as it was
MovedTo(s1, s2, src, e) ==
  LET touched == {Meta(MainVol, src), Data(MainVol, src), Meta(MainVol, e), Data(MainVol, e)}
      from == Dir(MainVol, ParentPath(src))
      to == Dir(MainVol, ParentPath(e))
  IN  /\ ~Has(s2, Meta(MainVol, src)) /\ ~Has(s2, Data(MainVol, src))
      /\ BaseName(src) \notin SMembers(s2, from)
      /\ Has(s2, Meta(MainVol, e)) /\ s2[Meta(MainVol, e)] = s1[Meta(MainVol, src)]
      /\ Has(s2, Data(MainVol, e)) /\ s2[Data(MainVol, e)] = s1[Data(MainVol, src)]
      /\ BaseName(e) \in SMembers(s2, to)
      /\ \A k \in (DOMAIN s1 \cup DOMAIN s2) \ touched :
           IF k \in {from, to}
             THEN SMembers(s2, k) =
                    (SMembers(s1, k) \ (IF k = from THEN {BaseName(src)} ELSE {}))
                      \cup (IF k = to THEN {BaseName(e)} ELSE {})
           ELSE Has(s1, k) /\ Has(s2, k) /\ s2[k] = s1[k]

\* C14 (as the code has it): Move of a file src to an effective destination
\* E other than src, below a directory, succeeds; one step changes the
\* store, and afterwards the records of src are those of E and nothing else
\* has changed.  When E is src itself Move succeeds and changes nothing.
C14_MoveFile ==
  /\ []((Returned(1, "Move") /\ MovesFile) =>
         LET e == Effective(cl[1].pre, ArgPath(1), ArgDst(1))
         IN  /\ cl[1].res = "ok"
             /\ IF e = ArgPath(1) THEN store = cl[1].pre
                ELSE MovedTo(cl[1].pre, store, ArgPath(1), e))
  /\ [][(Running(1) /\ MovesFile /\ store' # store) => store = cl[1].pre]_vars

\* a file was moved onto another file
C14_Witness ==
  /\ Returned(1, "Move") /\ MovesFile /\ cl[1].res = "ok"
  /\ Effective(cl[1].pre, ArgPath(1), ArgDst(1)) # ArgPath(1)
  /\ TypeOf(cl[1].pre, MainVol, ArgDst(1)) = "file"

\* C14 (as stated): the same for every effective destination, src included.
C14_MoveFileAsStated ==
  (Returned(1, "Move") /\ MovesFile) =>
    /\ cl[1].res = "ok"
    /\ MovedTo(cl[1].pre, store, ArgPath(1), Effective(cl[1].pre, ArgPath(1), ArgDst(1)))

\* the paths below d that have a metadata record in keyspace s
Descendants(s, d) ==
  {k.path : k \in {x \in DOMAIN s : x.class = "meta" /\ AtOrBelow(d, x.path) /\ x.path # d}}

\* the path below e that p has below d
Rebased(d, e, p) == e \o SubSeq(p, Len(d) + 1, Len(p))

\* in s2, every descendant that d has in s1 is found below e at the same
\* relative path, with the same type and, for a file, the same content
SubtreeAt(s1, s2, d, e) ==
  \A p \in Descendants(s1, d) :
    /\ TypeOf(s2, MainVol, Rebased(d, e, p)) = TypeOf(s1, MainVol, p)
    /\ TypeOf(s1, MainVol, p) = "file" =>
         /\ Has(s2, Data(MainVol, Rebased(d, e, p)))
         /\ s2[Data(MainVol, Rebased(d, e, p))] = s1[Data(MainVol, p)]

\* C15: after Move(src, dst) returns success for a directory src, src and
\* its former descendants are absent and the effective destination is a
\* directory that holds every former descendant at the same relative path,
\* with the same type and, for files, the same content.
C15_MoveDir ==
  (Returned(1, "Move") /\ cl[1].res = "ok" /\ TypeOf(cl[1].pre, MainVol, ArgPath(1)) = "dir") =>
    LET e == Effective(cl[1].pre, ArgPath(1), ArgDst(1))
    IN  /\ \A p \in Descendants(cl[1].pre, ArgPath(1)) \cup {ArgPath(1)} :
             ~Exists(store, MainVol, p)
        /\ IsDir(store, MainVol, e)
        /\ SubtreeAt(cl[1].pre, store, ArgPath(1), e)

\* the content a reader gets for p: GET of a missing key reads as empty
ContentOf(s, p) == IF Has(s, Data(MainVol, p)) THEN s[Data(MainVol, p)] ELSE << >>

\* C16: after CopyFile(src, dst) returns success for a non-directory src,
\* the effective destination has src's type, mode, uid, gid, size and
\* content and is a member of its parent's set, and src's content and its
\* metadata fields other than atime are unchanged; CopyFile fails and
\* changes nothing when src is absent, src is a directory or the parent of
\* the effective destination is not a directory.
C16_CopyFile ==
  Returned(1, "CopyFile") =>
    LET src == ArgPath(1)
        e == Effective(cl[1].pre, ArgPath(1), ArgDst(1))
        was == Stat(cl[1].pre, MainVol, src)
    IN  /\ (was.type \in {"nil", "dir"} \/ ~IsDir(cl[1].pre, MainVol, ParentPath(e))) =>
             (cl[1].res # "ok" /\ store = cl[1].pre)
        /\ (cl[1].res = "ok" /\ was.type \notin {"nil", "dir"}) =>
             /\ \A f \in {"type", "mode", "uid", "gid", "size"} :
                  Stat(store, MainVol, e)[f] = was[f]
             /\ ContentOf(store, e) = ContentOf(cl[1].pre, src)
             /\ BaseName(e) \in SMembers(store, Dir(MainVol, ParentPath(e)))
             /\ ContentOf(store, src) = ContentOf(cl[1].pre, src)
             /\ \A f \in DOMAIN was \ {"atime"} : Stat(store, MainVol, src)[f] = was[f]

\* d and what is below d is in s2 as it was in s1, access times apart
SubtreeKept(s1, s2, d) ==
  /\ Descendants(s2, d) = Descendants(s1, d)
  /\ \A p \in Descendants(s1, d) \cup {d} :
       /\ \A f \in DOMAIN Stat(s1, MainVol, p) \ {"atime"} :
            Stat(s2, MainVol, p)[f] = Stat(s1, MainVol, p)[f]
       /\ ContentOf(s2, p) = ContentOf(s1, p)
       /\ SMembers(s2, Dir(MainVol, p)) = SMembers(s1, Dir(MainVol, p))

\* C17: after CopyRecursive(src, dst) returns success for a directory src,
\* every descendant of src is found at the same relative path below the
\* effective destination, with the same type and, for files, the same
\* content, whatever existed there before; and the subtree of src is
\* unchanged apart from access times.
C17_CopyRecursive ==
  (/\ Returned(1, "CopyRecursive") /\ cl[1].res = "ok"
   /\ TypeOf(cl[1].pre, MainVol, ArgPath(1)) = "dir") =>
    /\ SubtreeAt(cl[1].pre, store, ArgPath(1), Effective(cl[1].pre, ArgPath(1), ArgDst(1)))
    /\ SubtreeKept(cl[1].pre, store, ArgPath(1))

\* the links followed from p in s, k at most: how many there are, where they
\* end, and whether they end at all
RECURSIVE Follow(_, _, _)
Follow(s, p, k) ==
  IF TypeOf(s, MainVol, p) # "symlink" THEN [links |-> 0, end |-> p, ends |-> TRUE]
  ELSE IF k = 0 THEN [links |-> 0, end |-> p, ends |-> FALSE]
  ELSE LET r == Follow(s, ResolveHop(s, MainVol, p).path, k - 1)
       IN  [r EXCEPT !.links = @ + 1]
\* the chain of links that starts at p in s; a chain has no link twice
ChainOf(s, p) == Follow(s, p, Cardinality(DOMAIN s))

\* C18: ResolveSymlink started at the first link of a chain of n links that
\* ends at a path that is no link returns that path when n <= 40 and fails
\* with TooManyLinks when n > 40.
C18_ResolveSymlinkLimit ==
  (/\ Returned(1, "ResolveSymlink")
   /\ ChainOf(store, ArgPath(1)).ends /\ ChainOf(store, ArgPath(1)).links >= 1) =>
    IF ChainOf(store, ArgPath(1)).links <= 40
      THEN cl[1].res = "ok" /\ cl[1].out = ChainOf(store, ArgPath(1)).end
    ELSE cl[1].res = "TooManyLinks"

\* c is following links, in ResolveSymlink or in ReadFile
Resolving(c) ==
  /\ Running(c)
  /\ \/ Top(c).fn = "ResolveSymlink"
     \/ Top(c).fn = "ReadFile" /\ Top(c).pc = "resolve"

\* C19: ResolveSymlink, and ReadFile through it, terminates on every
\* configuration of links, self-links and cycles included: it never has
\* followed more than 40 links, ResolveSymlink returns a path or
\* TooManyLinks, and a call of either operation always returns.
C19_ResolveTerminates ==
  /\ [](Resolving(1) => Top(1).n <= 40)
  /\ [](Returned(1, "ResolveSymlink") =>
          \/ cl[1].res = "ok" /\ cl[1].out = ChainOf(store, ArgPath(1)).end
          \/ cl[1].res = "TooManyLinks")
  /\ (Running(1) /\ cl[1].call.op \in {"ResolveSymlink", "ReadFile"}) ~> Idle(1)
\* ResolveSymlink called on a cycle of links has returned TooManyLinks
C19_Witness ==
  /\ Returned(1, "ResolveSymlink") /\ cl[1].res = "TooManyLinks"
  /\ ~ChainOf(store, ArgPath(1)).ends

\* the path the link p of s leads to: an absolute target as it is, a
\* relative one from the directory that holds p
LinkedTo(s, p) ==
  LET t == Stat(s, MainVol, p).link_target
  IN  IF t.abs THEN t.comps ELSE NormalizePath(Abs(ParentPath(p) \o t.comps))
\* the walk from p in s over k links at most
RECURSIVE Walk(_, _, _)
Walk(s, p, k) ==
  IF TypeOf(s, MainVol, p) # "symlink" \/ k = 0 THEN [links |-> 0, end |-> p]
  ELSE [Walk(s, LinkedTo(s, p), k - 1) EXCEPT !.links = @ + 1]
WalkOf(s, p) == Walk(s, p, Cardinality(DOMAIN s))

\* C20: ReadFile on a symlink returns the content of the file reached by
\* following the whole chain of links (of 40 links at most), each relative
\* target resolved against the directory that holds the link and each
\* absolute target taken as the next path.
C20_ReadFileFollowsLinks ==
  (/\ Returned(1, "ReadFile")
   /\ TypeOf(cl[1].pre, MainVol, ArgPath(1)) = "symlink"
   /\ WalkOf(cl[1].pre, ArgPath(1)).links <= 40
   /\ TypeOf(cl[1].pre, MainVol, WalkOf(cl[1].pre, ArgPath(1)).end) = "file") =>
    /\ cl[1].res = "ok"
    /\ cl[1].out = ContentOf(cl[1].pre, WalkOf(cl[1].pre, ArgPath(1)).end)

\* the entry ReadFile called on p in s finally reads: p, or the end of its
\* chain of links
FinalEntry(s, p) == WalkOf(s, p).end

\* C21: ReadFile returns content only when the entry finally read, the path
\* itself or the end of its chain of links, exists and is not a directory:
\* it fails with NotFound when that entry has no metadata record and with
\* IsADirectory when it is a directory (chains within the limit of links).
C21_ReadFileErrors ==
  (/\ Returned(1, "ReadFile")
   /\ WalkOf(cl[1].pre, ArgPath(1)).links < maxSymlinkDepth) =>
    /\ TypeOf(cl[1].pre, MainVol, FinalEntry(cl[1].pre, ArgPath(1))) = "nil"
         => cl[1].res = "NotFound"
    /\ TypeOf(cl[1].pre, MainVol, FinalEntry(cl[1].pre, ArgPath(1))) = "dir"
         => cl[1].res = "IsADirectory"
    /\ cl[1].res = "ok"
         => TypeOf(cl[1].pre, MainVol, FinalEntry(cl[1].pre, ArgPath(1))) \in {"file", "symlink"}

\* the names a returned listing holds
Listed(out) ==
  {IF cl[1].call.op = "ReadDir" THEN out[i] ELSE out[i].Name : i \in DOMAIN out}

\* C22: ReadDir and ReadDirWithMeta return an error when the path has no
\* metadata record or is not a directory, and otherwise return exactly the
\* names in the membership set of the path.
C22_ReadDirErrors ==
  (Returned(1, "ReadDir") \/ Returned(1, "ReadDirWithMeta")) =>
    IF TypeOf(store, MainVol, cl[1].call.path) = "dir"
      THEN /\ cl[1].res = "ok"
           /\ Listed(cl[1].out) = SMembers(store, Dir(MainVol, cl[1].call.path))
           /\ Len(cl[1].out) = Cardinality(SMembers(store, Dir(MainVol, cl[1].call.path)))
    ELSE cl[1].res # "ok"

\* a stored path in canonical form: no ".", no ".." and no empty component
\* (the leading slash is the root the components hang from)
Canonical(p) == \A i \in DOMAIN p : p[i] \notin {"", ".", ".."}

\* C23: whatever path string a mutating operation is handed, rooted or
\* relative, with ".", "..", repeated or trailing slashes, every metadata,
\* content and membership key it writes is keyed by a canonical path.
C23_KeysCanonical == \A k \in DOMAIN store : Canonical(k.path)

\* C24: NormalizePath is idempotent: for every path string p, rooted or
\* relative, built from names, ".", ".." and empty components,
\* NormalizePath(NormalizePath(p)) = NormalizePath(p).
C24_NormalizeIdempotent ==
  (calc.fn = "NormalizePath" /\ calc.n = 2) => calc.twice = calc.once

\* the whole of name matches pattern: "*" stands for any run of characters,
\* "?" for one character, any other character for itself
RECURSIVE GlobSemantics(_, _)
GlobSemantics(pattern, name) ==
  IF pattern = << >> THEN name = << >>
  ELSE IF Head(pattern) = "*"
    THEN \E k \in 0..Len(name) :
           GlobSemantics(Tail(pattern), SubSeq(name, k + 1, Len(name)))
  ELSE /\ name # << >>
       /\ Head(pattern) = "?" \/ Head(pattern) = Head(name)
       /\ GlobSemantics(Tail(pattern), Tail(name))

\* C26: globMatch(pattern, name) is true exactly when the whole of name
\* matches pattern, for every pattern and every name over an alphabet in
\* which names may hold the characters "*" and "?".
C26_GlobMatch ==
  (calc.fn = "globMatch" /\ calc.n = 1) =>
    (calc.out <=> GlobSemantics(calc.pattern, calc.name))

\* the entries reachable from root in s through membership sets
RECURSIVE ReachableFrom(_, _)
ReachableFrom(s, root) ==
  IF ~Exists(s, MainVol, root) THEN {}
  ELSE {root} \cup UNION {ReachableFrom(s, root \o <<m>>) : m \in SMembers(s, Dir(MainVol, root))}
\* the type filter of find
OfType(type, typeFilter) ==
  CASE typeFilter = "f" -> type = "file"
    [] typeFilter = "d" -> type = "dir"
    [] typeFilter = "l" -> type = "symlink"
    [] OTHER -> TRUE
\* the entries Find is to return
ToFind(s, root, namePattern, typeFilter) ==
  {p \in ReachableFrom(s, root) :
     /\ OfType(TypeOf(s, MainVol, p), typeFilter)
     /\ namePattern # << >> => GlobSemantics(namePattern, Spelling(BaseName(p)))}

\* C25: Find(root, namePattern, typeFilter) returns exactly the entries
\* reachable from root through membership sets whose type satisfies the
\* filter and whose basename matches the glob, each once and every
\* directory before its descendants; when root has no metadata record
\* the result is empty and there is no error.
C25_Find ==
  Returned(1, "Find") =>
    /\ cl[1].res = "ok"
    /\ {cl[1].out[i].Path : i \in DOMAIN cl[1].out}
         = ToFind(store, ArgPath(1), cl[1].call.str, cl[1].call.filter)
    /\ \A i, j \in DOMAIN cl[1].out :
         /\ cl[1].out[i].Path = cl[1].out[j].Path => i = j
         /\ (AtOrBelow(cl[1].out[i].Path, cl[1].out[j].Path) /\ i # j) => i < j

\* the paths of the nodes below a tree entry
RECURSIVE NodesBelow(_)
NodesBelow(entry) ==
  UNION {{entry.Children[i].Path} \cup NodesBelow(entry.Children[i]) :
           i \in DOMAIN entry.Children}
\* the descendants of root in s down to maxDepth levels, all when maxDepth is 0
WithinDepth(s, root, maxDepth) ==
  {p \in Descendants(s, root) : maxDepth = 0 \/ Len(p) - Len(root) <= maxDepth}

\* C27: Tree(root, maxDepth) on a directory root returns a node tree that
\* holds exactly the descendants of root at depth <= maxDepth (all when
\* maxDepth is 0), dirCount the number of directories and fileCount the
\* number of other entries among them, root not counted.
C27_Tree ==
  (Returned(1, "Tree") /\ TypeOf(store, MainVol, ArgPath(1)) = "dir") =>
    LET within == WithinDepth(store, ArgPath(1), cl[1].call.depth)
    IN  /\ cl[1].res = "ok"
        /\ NodesBelow(cl[1].out.entry) = within
        /\ cl[1].out.dirCount =
             Cardinality({p \in within : TypeOf(store, MainVol, p) = "dir"})
        /\ cl[1].out.fileCount =
             Cardinality({p \in within : TypeOf(store, MainVol, p) # "dir"})

\* the last call is one of those that notify the observer: WriteFile,
\* AppendFile, CopyFile, Remove, or Move of an entry that is no directory
NotifyingCall ==
  \/ cl[1].call.op \in {"WriteFile", "AppendFile", "CopyFile", "Remove"}
  \/ /\ cl[1].call.op = "Move"
     /\ TypeOf(cl[1].pre, MainVol, ArgPath(1)) \in {"file", "symlink"}
\* the notification that matches the last call: the path it is about, and
\* for a write the content the file has after the call
MatchingNote ==
  CASE cl[1].call.op \in {"WriteFile", "AppendFile"} ->
         <<"write", ArgPath(1), ContentOf(store, ArgPath(1))>>
    [] cl[1].call.op = "CopyFile" ->
         <<"write", Effective(cl[1].pre, ArgPath(1), ArgDst(1)),
           ContentOf(store, Effective(cl[1].pre, ArgPath(1), ArgDst(1)))>>
    [] cl[1].call.op = "Remove" -> <<"remove", ArgPath(1)>>
    [] OTHER -> <<"move", ArgPath(1), Effective(cl[1].pre, ArgPath(1), ArgDst(1))>>

\* C28: every WriteFile, AppendFile, CopyFile, Remove or Move of a
\* non-directory whose transaction commits is followed by exactly one
\* matching observer notification; no notification is issued before the
\* commit or for a call that changed nothing, and a notification changes
\* neither the stored state nor the result of the call.
C28_Notifications ==
  /\ []((Idle(1) /\ NotifyingCall) =>
          /\ store # cl[1].pre => cl[1].notes = <<MatchingNote>>
          /\ cl[1].res = "ok" => cl[1].notes = <<MatchingNote>>
          /\ (cl[1].res # "ok" /\ store = cl[1].pre) => cl[1].notes = << >>)
  /\ [][(Running(1) /\ NotifyingCall /\ cl'[1].notes # cl[1].notes) =>
          (cl[1].notes = << >> /\ Idle(1)' /\ cl'[1].res = "ok")]_vars

\* the owner string before its first colon, and after it ("" when there is
\* no colon)
BeforeColon(owner) ==
  LET chars == Letters(owner)
      n == CHOOSE k \in 0..Len(chars) :
             /\ \A i \in 1..k : chars[i] # ":"
             /\ k < Len(chars) => chars[k + 1] = ":"
  IN  Word(SubSeq(chars, 1, n))
AfterColon(owner) ==
  LET chars == Letters(owner)
      n == Len(Letters(BeforeColon(owner)))
  IN  IF n = Len(chars) THEN "" ELSE Word(SubSeq(chars, n + 2, Len(chars)))
\* the metadata hash of p after uid and gid are set to the non-empty halves
Owned(h, owner) ==
  [f \in DOMAIN h \cup (IF BeforeColon(owner) # "" THEN {"uid"} ELSE {})
                  \cup (IF AfterColon(owner) # "" THEN {"gid"} ELSE {})
     |-> CASE f = "uid" /\ BeforeColon(owner) # "" -> BeforeColon(owner)
           [] f = "gid" /\ AfterColon(owner) # "" -> AfterColon(owner)
           [] OTHER -> h[f]]

\* C29: Chown(p, owner) on an existing path sets uid to what is before the
\* first colon of owner iff that is non-empty and gid to what is after it
\* iff that is non-empty, and changes no other metadata field, no content
\* and no membership set; with both halves empty it fails with
\* InvalidArgument and on a missing path with NotFound, changing nothing.
C29_Chown ==
  Returned(1, "Chown") =>
    LET pre == cl[1].pre
        k == Meta(MainVol, ArgPath(1))
        owner == cl[1].call.str
    IN  IF ~Has(pre, k) THEN cl[1].res = "NotFound" /\ store = pre
        ELSE IF BeforeColon(owner) = "" /\ AfterColon(owner) = ""
             THEN cl[1].res = "InvalidArgument" /\ store = pre
        ELSE /\ cl[1].res = "ok"
             /\ store = [pre EXCEPT ![k] = Owned(pre[k], owner)]
\* a Chown that set one half only, and one with a second colon
C29_Witness ==
  /\ Returned(1, "Chown") /\ cl[1].res = "ok"
  /\ cl[1].call.str = "7:8:9"
  /\ store[Meta(MainVol, ArgPath(1))].uid = "7"
  /\ store[Meta(MainVol, ArgPath(1))].gid = "8:9"

\* a mode that strconv.ParseUint(mode, 8, 32) reads: one digit or more,
\* each from 0 to 7
OctalMode(mode) ==
  /\ Letters(mode) # << >>
  /\ \A i \in DOMAIN Letters(mode) :
       Letters(mode)[i] \in {"0", "1", "2", "3", "4", "5", "6", "7"}

\* C30: Chmod(p, mode) with a mode that is no octal permission string fails
\* with InvalidArgument (or NotFound on a missing path) and leaves the
\* metadata of p as it was; with an octal permission string on an existing
\* path it changes the mode field and nothing else.
C30_ChmodValidates ==
  Returned(1, "Chmod") =>
    LET pre == cl[1].pre
        k == Meta(MainVol, ArgPath(1))
        mode == cl[1].call.str
    IN  IF ~OctalMode(mode)
        THEN /\ cl[1].res = (IF Has(pre, k) THEN "InvalidArgument" ELSE cl[1].res)
             /\ cl[1].res \in {"InvalidArgument", "NotFound"}
             /\ HGetAll(store, k) = HGetAll(pre, k)
        ELSE Has(pre, k) =>
               /\ cl[1].res = "ok"
               /\ store = [pre EXCEPT ![k] = [mode |-> mode] @@ pre[k]]

\* a query as its parser reads it: a backslash makes the character after it
\* literal and is dropped; esc says which characters were escaped
RECURSIVE Parsed(_)
Parsed(q) ==
  IF q = << >> THEN << >>
  ELSE IF Head(q) = "\\" /\ Len(q) > 1
    THEN <<[ch |-> q[2], esc |-> TRUE]>> \o Parsed(SubSeq(q, 3, Len(q)))
  ELSE <<[ch |-> Head(q), esc |-> FALSE]>> \o Parsed(Tail(q))
IsSpecial(ch) == \E i \in DOMAIN special : special[i] = ch

\* C31: for every string over special characters, the backslash and
\* ordinary characters, the parser reads the output of EscapeQuery as the
\* characters of the input, each special character escaped by one backslash
\* and no other character escaped.
C31_EscapeQuery ==
  (calc.fn = "EscapeQuery" /\ calc.n = 1) =>
    LET read == Parsed(calc.out)
    IN  /\ [i \in DOMAIN read |-> read[i].ch] = calc.arg
        /\ \A i \in DOMAIN read : read[i].esc <=> IsSpecial(read[i].ch)

\* the last call is a mutating operation that is not recursive
NonRecursiveCall ==
  \/ cl[1].call.op \in {"Rmdir", "Touch", "WriteFile", "AppendFile", "Remove",
                        "CopyFile", "Symlink", "Chmod", "Chown"}
  \/ cl[1].call.op = "Mkdir" /\ ~cl[1].call.parents
  \/ /\ cl[1].call.op = "Move"
     /\ TypeOf(cl[1].pre, MainVol, ArgPath(1)) \in {"file", "symlink"}

\* C32: when a non-recursive mutating operation (Mkdir without parents,
\* Rmdir, Touch, WriteFile, AppendFile, Remove, CopyFile, Move of a file or
\* symlink, Symlink, Chmod, Chown) returns an error, the call has changed
\* no metadata, content, membership or xattr key.
C32_ErrorChangesNothing ==
  (Idle(1) /\ NonRecursiveCall /\ cl[1].res # "ok") => store = cl[1].pre

\* the number of levels below p in keyspace s, through membership sets
RECURSIVE Height(_, _)
Height(s, p) ==
  LET below == {Height(s, p \o <<m>>) : m \in SMembers(s, Dir(MainVol, p))}
  IN  IF below = {} THEN 0 ELSE 1 + CHOOSE h \in below : \A g \in below : g <= h
\* the calls of CopyRecursive that have not returned
Nesting(c) == Cardinality({i \in DOMAIN cl[c].stack : cl[c].stack[i].fn = "CopyRecursive"})

\* C33: CopyRecursive(src, dst) and Move(src, dst) of a directory terminate
\* for every pair of paths, dst equal to src, the parent of src or inside
\* src included: the recursion descends the tree that was under src when
\* the call began, so it never nests deeper than that tree is high, and it
\* is never abandoned for the length of its destination.
C33_CopyTerminates ==
  cl[1].call.op \in {"CopyRecursive", "Move"} =>
    /\ Nesting(1) <= 1 + Height(cl[1].pre, ArgPath(1))
    /\ cl[1].res = "Abandoned" =>
         ~AtOrBelow(ArgPath(1), Effective(cl[1].pre, ArgPath(1), ArgDst(1)))

\* the last call is Move of a directory to a destination outside it
MovesDir ==
  /\ cl[1].call.op = "Move"
  /\ TypeOf(cl[1].pre, MainVol, ArgPath(1)) = "dir"
  /\ ~AtOrBelow(ArgPath(1), Effective(cl[1].pre, ArgPath(1), ArgDst(1)))
\* Move has not yet called RemoveRecursive: it is before moveDir or in the
\* CopyRecursive that moveDir calls first
Copying(c) ==
  /\ Running(c)
  /\ \E i \in DOMAIN cl[c].stack : cl[c].stack[i].fn \in {"Move", "moveDir"}
\* p is in s2 what it was in s1: same type, same content
KeptAt(s1, s2, p) ==
  /\ TypeOf(s2, MainVol, p) = TypeOf(s1, MainVol, p)
  /\ ContentOf(s2, p) = ContentOf(s1, p)
\* the file p of s1 is in s2 under its own path, or somewhere below e under
\* its own name, with the content it had
Survives(s1, s2, e, p) ==
  \/ KeptAt(s1, s2, p)
  \/ \E k \in DOMAIN s2 :
       /\ k.class = "meta" /\ AtOrBelow(e, k.path) /\ BaseName(k.path) = BaseName(p)
       /\ TypeOf(s2, MainVol, k.path) = "file"
       /\ ContentOf(s2, k.path) = ContentOf(s1, p)

\* C34: during Move(src, dst) of a directory to a destination outside src,
\* nothing at or below src is removed or changed before the CopyRecursive
\* of moveDir has returned success; at every point of the call and after it
\* returned, with or without an error, every file that was below src is
\* still there with its content, under src or under the destination.
C34_MoveDirCopiesFirst ==
  MovesDir =>
    LET pre == cl[1].pre
        src == ArgPath(1)
        e == Effective(pre, src, ArgDst(1))
    IN  /\ Copying(1) => \A p \in Descendants(pre, src) \cup {src} : KeptAt(pre, store, p)
        /\ \A p \in Descendants(pre, src) :
             TypeOf(pre, MainVol, p) = "file" => Survives(pre, store, e, p)

\* every call of the script has been made and has returned
Quiescent == plan.script = << >> /\ plan.free = 0 /\ \A c \in DOMAIN cl : ~Running(c)
\* every name in a membership set has a metadata record
MembersHaveMeta ==
  \A k \in DOMAIN store :
    k.class = "dir" => \A name \in store[k] : Has(store, Meta(k.vol, JoinPath(k.path, name)))
\* the metadata records of non-root paths that are in no membership set
Orphans ==
  {k \in DOMAIN store :
     /\ k.class = "meta" /\ k.path # Root
     /\ BaseName(k.path) \notin SMembers(store, Dir(k.vol, ParentPath(k.path)))}

C36_ConcurrentAppend ==
  (/\ Quiescent
   /\ \A c \in {1, 2} : /\ cl[c].call.op = "AppendFile" /\ cl[c].res = "ok"
                        /\ ArgPath(c) = <<"a">>
                        /\ TypeOf(cl[c].pre, MainVol, <<"a">>) = "file") =>
    LET now == ContentOf(store, <<"a">>)
        s1 == cl[1].call.str
        s2 == cl[2].call.str
    IN  /\ \E c \in {1, 2} :
             now \in {ContentOf(cl[c].pre, <<"a">>) \o s1 \o s2,
                      ContentOf(cl[c].pre, <<"a">>) \o s2 \o s1}
        /\ Stat(store, MainVol, <<"a">>).size = Len(now)
(* ------------------- the shell: volumes and the indexer ----------------- *)

\* The client of a shell carries, besides the engine's fields, the router's
\* State, the Indexer registered as observer (its volume, whether an embedder
\* is set, whether the FT index of its volume exists) and tasks, the
\* asyncEmbed goroutines that have not stored their vector yet.  since is the
\* keyspace when the last vol switch or vol create succeeded, gone the paths
\* whose last notification was a removal or a move away.
Volumes == {"main", "b"}
Idx(v, p) == [vol |-> v, class |-> "idx", path |-> p]
NoDir == Rel(<< >>)
NewState(volume) == [Volume |-> volume, Cwd |-> Abs(Root), PrevDir |-> NoDir]
NewIndexer(volume, embedder, ft) == [volume |-> volume, embedder |-> embedder, ft |-> ft]
NewShellRec(embedder, ft) ==
  [stack |-> << >>, res |-> "none", out |-> << >>, call |-> NoCall,
   prev |-> NoCall, pre |-> << >>, notes |-> << >>, Volume |-> MainVol,
   observer |-> TRUE, State |-> NewState(MainVol),
   Indexer |-> NewIndexer(MainVol, embedder, ft), tasks |-> {},
   since |-> << >>, switched |-> FALSE, gone |-> {}]

\* Router.ResolvePath: fs.ResolvePath(r.State.Cwd, p)
ResolvePath(cwd, p) ==
  IF p = NoDir THEN NormalizePath(cwd)
  ELSE IF p.abs THEN NormalizePath(p)
  ELSE NormalizePath(Abs(cwd.comps \o <<"">> \o p.comps))

\* indexFileContent: the fields of an index record
IndexFields(path, content, now) ==
  [content |-> content, path |-> path, dir |-> ParentPath(path),
   filename |-> BaseName(path), mtime |-> now, size |-> Len(content)]
\* embedding.Float32ToBytes(vec) of the vector of a content
Embedding(content) == <<"vec">> \o content
Task(path, content) == [path |-> path, content |-> content]
\* go idx.asyncEmbed(filePath, content): nothing to do for an empty content
Spawned(ix, path, content) ==
  IF ix.embedder /\ content # << >> THEN {Task(path, content)} ELSE {}

\* a vol switch that keeps the engine on the target volume when the target
\* has no root
SwitchedVolumeNoRestore(c, name, exists) == name
\* volSwitch: the engine's volume after the Exists check
SwitchedVolume(c, name, exists) == IF exists THEN name ELSE cl[c].State.Volume

\* a removal notification that leaves the index record in place
OnFileRemoveKeeps(s, ix, path) == s
\* Indexer.OnFileRemove: DEL of the index key
OnFileRemove(s, ix, path) == Del(s, Idx(ix.volume, path))

\* Indexer.OnFileWrite: no content of the model is binary
OnFileWrite(s, ix, path, content, now) ==
  IF ~ix.ft THEN [store |-> s, tasks |-> {}]
  ELSE [store |-> HSet(s, Idx(ix.volume, path), IndexFields(path, content, now)),
        tasks |-> Spawned(ix, path, content)]

\* Indexer.OnFileMove
OnFileMove(s, ix, oldPath, newPath, now) ==
  LET oldKey == Idx(ix.volume, oldPath)
      newKey == Idx(ix.volume, newPath)
  IN  IF ~Has(s, oldKey) \/ "content" \notin DOMAIN s[oldKey]
        THEN [store |-> s, tasks |-> {}]
      ELSE LET content == s[oldKey]["content"]
           IN  [store |-> HSet(Del(s, oldKey), newKey, IndexFields(newPath, content, now)),
                tasks |-> Spawned(ix, newPath, content)]

\* a command of the shell and its word: a volume name, or the form of a cd
Shell(op, path, word) == Call(op, path, Root, <<word>>, FALSE)
ScriptWord ==
  IF Scripted /\ Head(plan.script).str # << >> THEN Head(Head(plan.script).str) ELSE ""
VolumeArgs == IF Scripted THEN {ScriptWord} ELSE Volumes
CdArgs == IF Scripted THEN {ScriptWord} ELSE {"path", "-", "none"}

\* the notification of the operation that just returned reaches the observer
Observe(c) ==
  /\ ~Running(c) /\ cl[c].notes # << >>
  /\ UNCHANGED <<nops, plan>>
  /\ LET note == Head(cl[c].notes)
         ix == cl[c].Indexer
         r == CASE note[1] = "write" -> OnFileWrite(store, ix, note[2], note[3], Now)
                [] note[1] = "remove" ->
                     [store |-> OnFileRemove(store, ix, note[2]), tasks |-> {}]
                [] note[1] = "move" -> OnFileMove(store, ix, note[2], note[3], Now)
         left == CASE note[1] = "write" -> cl[c].gone \ {note[2]}
                   [] note[1] = "remove" -> cl[c].gone \cup {note[2]}
                   [] note[1] = "move" -> (cl[c].gone \cup {note[2]}) \ {note[3]}
     IN  /\ store' = r.store
         /\ cl' = [cl EXCEPT ![c].notes = Tail(@), ![c].tasks = @ \cup r.tasks,
                             ![c].gone = left]

\* asyncEmbed after Embed returned: the vector is stored under the key that
\* idxKey gives now, or Embed failed and nothing is stored
AsyncEmbed(c) ==
  \E t \in cl[c].tasks, embedded \in BOOLEAN :
    /\ UNCHANGED <<nops, plan>>
    /\ cl' = [cl EXCEPT ![c].tasks = @ \ {t}]
    /\ store' = IF embedded
                  THEN HSet(store, Idx(cl[c].Indexer.volume, t.path),
                            [embedding |-> Embedding(t.content)])
                ELSE store

VolSwitch(c) ==
  \E name \in VolumeArgs :
    Begin(c, Shell("VolSwitch", Root, name),
          Started([F1("volSwitch", "exists", Root) EXCEPT !.str = <<name>>]))

VolSwitchStep(c) ==
  /\ Running(c) /\ Top(c).fn = "volSwitch"
  /\ UNCHANGED <<store, nops, plan>>
  /\ LET name == Head(Top(c).str)
         exists == Exists(store, name, Root)
     IN  cl' = [cl EXCEPT ![c] =
                  [@ EXCEPT !.stack = << >>,
                            !.res = IF exists THEN "ok" ELSE "NoVolume",
                            !.Volume = SwitchedVolume(c, name, exists),
                            !.State = IF exists THEN NewState(name) ELSE @,
                            !.since = IF exists THEN store ELSE @,
                            !.switched = exists \/ @]]

VolCreate(c) ==
  \E name \in VolumeArgs :
    Begin(c, Shell("VolCreate", Root, name),
          Started([F1("volCreate", "hsetnx", Root) EXCEPT !.str = <<name>>]))

\* volCreate: SetVolume(name), then Client.Init on the new volume
VolCreateStep(c) ==
  /\ Running(c) /\ Top(c).fn = "volCreate"
  /\ UNCHANGED <<nops, plan>>
  /\ LET name == Head(Top(c).str)
         k == Meta(name, Root)
         made == IF Top(c).pc = "hset" THEN HSet(store, k, ToMap(NewDirMeta(Now)))
                 ELSE store
     IN  IF Top(c).pc = "hsetnx" /\ ~(Has(store, k) /\ "type" \in DOMAIN store[k])
           THEN /\ store' = HSet(store, k, [type |-> "dir"])
                /\ cl' = [cl EXCEPT ![c] =
                            [@ EXCEPT !.stack = <<[Top(c) EXCEPT !.pc = "hset"]>>,
                                      !.Volume = name]]
         ELSE /\ store' = made
              /\ cl' = [cl EXCEPT ![c] =
                          [@ EXCEPT !.stack = << >>, !.res = "ok", !.Volume = name,
                                    !.State = NewState(name), !.since = made,
                                    !.switched = TRUE]]

\* handleCd: cd, cd - and cd <path>
Cd(c) ==
  \E p \in PathArgs, how \in CdArgs :
    Begin(c, Shell("Cd", p, how),
          Started([F1("handleCd", "isdir", Root) EXCEPT !.str = <<how>>,
                     !.path = IF how = "path" THEN p ELSE Root]))

CdStep(c) ==
  /\ Running(c) /\ Top(c).fn = "handleCd"
  /\ UNCHANGED <<store, nops, plan>>
  /\ LET f == Top(c)
         how == Head(f.str)
         st == cl[c].State
         target == CASE how = "none" -> Root
                     [] how = "-" -> NormalizePath(st.PrevDir)
                     [] OTHER -> NormalizePath(Abs(ResolvePath(st.Cwd, Handed(cl[c].call, f.path))))
     IN  IF how = "-" /\ st.PrevDir = NoDir THEN Fin(c, "NoOldPwd")
         ELSE IF f.pc = "isdir"
           THEN IF IsDir(store, Vol(c), target)
                  THEN cl' = [cl EXCEPT ![c].stack = << >>, ![c].res = "ok",
                                        ![c].State = [st EXCEPT !.PrevDir = st.Cwd,
                                                                !.Cwd = Abs(target)]]
                ELSE Go(c, [f EXCEPT !.pc = "exists"])
         ELSE Fin(c, IF Exists(store, Vol(c), target) THEN "NotADirectory" ELSE "NotFound")

VolMake(name) == Shell("VolCreate", Root, name)
VolUse(name) == Shell("VolSwitch", Root, name)
CdTo(p) == Shell("Cd", p, "path")
Mv(src, dst) == Call("Move", src, dst, << >>, FALSE)
\* what the user types: files /a and /b, the directory /d, the volumes
ShellCalls ==
  <<Write(<<"a">>, <<"x">>), Rm(<<"a">>), Mv(<<"a">>, <<"b">>),
    Call("Mkdir", <<"d">>, Root, << >>, FALSE), CdTo(<<"d">>),
    Shell("Cd", Root, "-"), Shell("Cd", Root, "none"),
    VolMake("b"), VolUse("b"), VolUse("main")>>
\* every line of three commands, and a file removed in the second volume
\* after it was written in both
ShellScripts ==
  {<<ShellCalls[i], ShellCalls[j], ShellCalls[k]>> : i, j, k \in DOMAIN ShellCalls}
    \cup {<<Write(<<"a">>, <<"x">>), VolMake("b"), Write(<<"a">>, <<"y", "y">>), Rm(<<"a">>)>>,
          <<Write(<<"a">>, <<"x">>), VolMake("b"), Write(<<"a">>, <<"x">>),
            Mv(<<"a">>, <<"b">>)>>}

InitShell ==
  /\ store = InitializedVolume
  /\ \E embedder, ft \in BOOLEAN : cl = [c \in {1} |-> NewShellRec(embedder, ft)]
  /\ nops = 0
  /\ \E script \in ShellScripts : plan = [script |-> script, free |-> 0]
  /\ calc = NoCalc

\* the shell reads one line at a time: a command starts when the previous
\* one has returned and its notification has been delivered
NextShell ==
  /\ UNCHANGED calc
  /\ \E c \in DOMAIN cl :
       \/ Observe(c)
       \/ AsyncEmbed(c)
       \/ /\ cl[c].notes = << >>
          /\ \/ WriteFile(c) \/ WriteFileStep(c)
             \/ Remove(c) \/ RemoveStep(c)
             \/ Move(c) \/ MoveStep(c) \/ MoveFileStep(c)
             \/ Mkdir(c) \/ MkdirStep(c)
             \/ VolSwitch(c) \/ VolSwitchStep(c)
             \/ VolCreate(c) \/ VolCreateStep(c)
             \/ Cd(c) \/ CdStep(c)

SpecShell == InitShell /\ [][NextShell]_vars

\* the asyncEmbed goroutines of client c that were started for path p
TasksOf(c, p) == {t \in cl[c].tasks : t.path = p}

\* C37: background embedding tasks never resurrect index records: once the
\* last notification about a path was its removal or its move away and every
\* embedding task started for that path has finished, no index record exists
\* under the path's index key.
C37_NoResurrection ==
  \A p \in cl[1].gone :
    TasksOf(1, p) = {} => ~Has(store, Idx(cl[1].Indexer.volume, p))

\* the fields of the record under k that the commands write: for an index
\* record, all but the vector a background task adds
Written(s, k) ==
  IF ~Has(s, k) THEN {}
  ELSE IF k.class = "idx" THEN DOMAIN s[k] \ {"embedding"}
  ELSE {"value"}
SameRecord(s1, s2, k) ==
  /\ Written(s1, k) = Written(s2, k)
  /\ Written(s1, k) # {} =>
       IF k.class = "idx" THEN \A f \in Written(s1, k) : s1[k][f] = s2[k][f]
       ELSE s1[k] = s2[k]

\* C38: after the active volume was switched from A to B by vol switch or
\* vol create, every key the following commands and the observer write lies
\* in volume B: no key of another volume is created, modified or deleted
\* (a vol create in progress set aside).
C38_SwitchRebindsAllKeys ==
  (cl[1].switched /\ ~(Running(1) /\ Top(1).fn = "volCreate")) =>
    \A k \in (DOMAIN store) \cup (DOMAIN cl[1].since) :
      k.vol # cl[1].State.Volume => SameRecord(store, cl[1].since, k)

\* a vol switch or vol create of client c returns in this step
VolReturns(c) ==
  /\ Running(c) /\ Top(c).fn \in {"volSwitch", "volCreate"}
  /\ ~Running(c)'

\* C39: after every vol switch or vol create, successful or failed, the
\* router's session volume equals the engine's active volume; a failed one
\* leaves the session volume, cwd and previous directory as they were, a
\* successful one sets cwd to "/" and clears the previous directory.
C39_SessionFollowsEngine ==
  /\ []((Returned(1, "VolSwitch") \/ Returned(1, "VolCreate")) =>
          cl[1].State.Volume = cl[1].Volume)
  /\ [][VolReturns(1) =>
          /\ cl'[1].res # "ok" => cl'[1].State = cl[1].State
          /\ cl'[1].res = "ok" =>
               /\ cl'[1].State.Volume = Head(Top(1).str)
               /\ cl'[1].State.Cwd = Abs(Root)
               /\ cl'[1].State.PrevDir = NoDir]_vars

\* a vol switch to a volume that does not exist failed in the directory /d
C39_Witness ==
  /\ Returned(1, "VolSwitch") /\ cl[1].res = "NoVolume"
  /\ cl[1].State = [Volume |-> MainVol, Cwd |-> Abs(<<"d">>), PrevDir |-> Abs(Root)]
  /\ cl[1].Volume = MainVol

(* ------------------------------ Tokenize ------------------------------- *)

\* characters of a command line
LineLen == 5
LineChars == {"a", " ", "'", "\"", ">", "\\"}
Lines == UNION {[1..k -> LineChars] : k \in 0..LineLen}

Blank(ch) == ch \in {" ", "\t"}
\* strings.TrimSpace
RECURSIVE TrimLeft(_)
TrimLeft(s) == IF s # << >> /\ Blank(Head(s)) THEN TrimLeft(Tail(s)) ELSE s
RECURSIVE TrimRight(_)
TrimRight(s) ==
  IF s # << >> /\ Blank(s[Len(s)]) THEN TrimRight(SubSeq(s, 1, Len(s) - 1)) ELSE s
TrimSpace(s) == TrimRight(TrimLeft(s))

NoRedirect == [set |-> FALSE, Append |-> FALSE, Path |-> << >>]
Redirect(append, path) == [set |-> TRUE, Append |-> append, Path |-> path]
Tokens(tokens, redirect) == [err |-> "ok", tokens |-> tokens, redirect |-> redirect]
SyntaxError(msg) == [err |-> msg, tokens |-> << >>, redirect |-> NoRedirect]
\* the token being built is saved when it is not empty
Saved(tokens, current) == IF current # << >> THEN Append(tokens, current) ELSE tokens

\* the whitespace after a redirect operator: the first index from i on that
\* holds no blank
RECURSIVE SkipBlanks(_, _)
SkipBlanks(line, i) ==
  IF i <= Len(line) /\ Blank(line[i]) THEN SkipBlanks(line, i + 1) ELSE i

\* the path of a redirect, read from index i: where the reading stopped and
\* the characters read
RECURSIVE ReadPath(_, _, _, _, _)
ReadPath(line, i, path, pathInSingle, pathInDouble) ==
  IF i > Len(line) THEN [i |-> i, path |-> path]
  ELSE LET pch == line[i]
       IN  IF pch = "'" /\ ~pathInDouble
             THEN ReadPath(line, i + 1, path, ~pathInSingle, pathInDouble)
           ELSE IF pch = "\"" /\ ~pathInSingle
             THEN ReadPath(line, i + 1, path, pathInSingle, ~pathInDouble)
           ELSE IF ~pathInSingle /\ ~pathInDouble /\ Blank(pch)
             THEN [i |-> i, path |-> path]
           ELSE ReadPath(line, i + 1, Append(path, pch), pathInSingle, pathInDouble)

\* the loop of Tokenize over the trimmed line, from index i
RECURSIVE TokenizeLoop(_, _, _, _, _, _, _, _)
TokenizeLoop(line, i, tokens, current, redirect, inSingle, inDouble, escaped) ==
  IF i > Len(line)
    THEN IF inSingle \/ inDouble THEN SyntaxError("unterminated quote")
         ELSE Tokens(Saved(tokens, current), redirect)
  ELSE LET ch == line[i]
       IN  IF escaped
             THEN TokenizeLoop(line, i + 1, tokens, Append(current, ch), redirect,
                               inSingle, inDouble, FALSE)
           ELSE IF ch = "\\" /\ ~inSingle
             THEN TokenizeLoop(line, i + 1, tokens, current, redirect,
                               inSingle, inDouble, TRUE)
           ELSE IF ch = "'" /\ ~inDouble
             THEN TokenizeLoop(line, i + 1, tokens, current, redirect,
                               ~inSingle, inDouble, FALSE)
           ELSE IF ch = "\"" /\ ~inSingle
             THEN TokenizeLoop(line, i + 1, tokens, current, redirect,
                               inSingle, ~inDouble, FALSE)
           ELSE IF inSingle \/ inDouble
             THEN TokenizeLoop(line, i + 1, tokens, Append(current, ch), redirect,
                               inSingle, inDouble, FALSE)
           ELSE IF ch = ">"
             THEN LET append_ == i + 1 <= Len(line) /\ line[i + 1] = ">"
                      from == SkipBlanks(line, (IF append_ THEN i + 1 ELSE i) + 1)
                      read == ReadPath(line, from, << >>, FALSE, FALSE)
                  IN  IF read.path = << >> THEN SyntaxError("redirect without target")
                      ELSE TokenizeLoop(line, read.i + 1, Saved(tokens, current), << >>,
                                        Redirect(append_, read.path), FALSE, FALSE, FALSE)
           ELSE IF Blank(ch)
             THEN TokenizeLoop(line, i + 1, Saved(tokens, current), << >>, redirect,
                               FALSE, FALSE, FALSE)
           ELSE TokenizeLoop(line, i + 1, tokens, Append(current, ch), redirect,
                             FALSE, FALSE, FALSE)

Tokenize(line) ==
  LET trimmed == TrimSpace(line)
  IN  IF trimmed = << >> THEN Tokens(<< >>, NoRedirect)
      ELSE TokenizeLoop(trimmed, 1, << >>, << >>, NoRedirect, FALSE, FALSE, FALSE)

InitTokenize ==
  /\ NoVolume
  /\ \E line \in Lines :
       calc = [fn |-> "Tokenize", arg |-> line, out |-> SyntaxError("none"), n |-> 0]
TokenizeCall ==
  /\ calc.fn = "Tokenize" /\ calc.n = 0
  /\ calc' = [calc EXCEPT !.out = Tokenize(calc.arg), !.n = 1]
  /\ UNCHANGED <<store, cl, nops, plan>>
SpecTokenize == InitTokenize /\ [][TokenizeCall]_vars

\* How a reader of the line sees its quoting: q is the quote that is open
\* after the first n characters, esc whether the next one is escaped.
Unquoted == [q |-> "", esc |-> FALSE]
RECURSIVE Quoting(_, _)
Quoting(line, n) ==
  IF n = 0 THEN Unquoted
  ELSE LET st == Quoting(line, n - 1)
           ch == line[n]
       IN  IF st.esc THEN [st EXCEPT !.esc = FALSE]
           ELSE IF ch = "\\" /\ st.q # "'" THEN [st EXCEPT !.esc = TRUE]
           ELSE IF ch \in {"'", "\""} /\ st.q = "" THEN [st EXCEPT !.q = ch]
           ELSE IF ch = st.q THEN [st EXCEPT !.q = ""]
           ELSE st
\* the character at i stands outside quotes and is not escaped
Bare(line, i) == Quoting(line, i - 1) = Unquoted
\* the places of the redirect operators of a line
Operators(line) == {i \in DOMAIN line : line[i] = ">" /\ Bare(line, i)}
QuoteLeftOpen(line) == Quoting(line, Len(line)).q # ""
\* the quote characters of a word; those of a line that are read as plain
\* characters, being escaped or inside quotes of the other kind
Quotes(word) == {i \in DOMAIN word : word[i] \in {"'", "\""}}
PlainQuotes(line) ==
  {i \in Quotes(line) : Quoting(line, i).q = Quoting(line, i - 1).q}
\* the word after a redirect operator is missing or made of quotes that hold
\* nothing
NoTargetAfter(line) ==
  \E i \in Operators(line) :
    /\ i + 1 \notin Operators(line)
    /\ \A j \in DOMAIN line :
         (/\ j > i
          /\ \A k \in (i + 1)..j :
               (Blank(line[k]) /\ Bare(line, k)) => \A m \in (i + 1)..k : Blank(line[m])) =>
           \/ Blank(line[j]) /\ Bare(line, j)
           \/ j \in Quotes(line) \ PlainQuotes(line)
RECURSIVE Flat(_)
Flat(words) == IF words = << >> THEN << >> ELSE Head(words) \o Flat(Tail(words))

\* C40: Tokenize returns the unterminated-quote error for every line in which
\* a quote is opened and never closed, in an argument or in a redirect
\* target, and the redirect-without-target error for every line whose > or >>
\* is followed by no path; every other line yields tokens with the quotes
\* removed and at most one redirect, whose Append flag is true exactly for >>
\* (of a line with several redirect operators only the first part is asked).
C40_Tokenize ==
  (calc.fn = "Tokenize" /\ calc.n = 1) =>
    LET line == TrimSpace(calc.arg)
        ops == Operators(line)
        append == Cardinality(ops) = 2 /\ \E i \in ops : i + 1 \in ops
        r == calc.out
    IN  IF QuoteLeftOpen(line) THEN r.err = "unterminated quote"
        ELSE IF Cardinality(ops) > 1 /\ ~append THEN r.err # "unterminated quote"
        ELSE IF NoTargetAfter(line) THEN r.err = "redirect without target"
        ELSE /\ r.err = "ok"
             /\ Cardinality(Quotes(Flat(r.tokens) \o r.redirect.Path))
                  = Cardinality(PlainQuotes(line))
             /\ r.redirect.set <=> ops # {}
             /\ r.redirect.Append <=> append

====
